---- MODULE Spec2Model ----
(***************************************************************************)
(* Model of the cross-store consistency checker of the medical-records     *)
(* repository: the type compatibility mapper (is_compatible_type), the     *)
(* validators (BaseValidator), the relational store / object store pair    *)
(* with the export step that copies one to the other, the transaction      *)
(* context, a test run under its fixture, the store clients (AWSClient,    *)
(* PostgresClient), the HTTP API and the schema consistency check.         *)
(***************************************************************************)
EXTENDS Integers, Sequences, FiniteSets, TLC

VARIABLES
    pa_type,      \* is_compatible_type: the columnar (PyArrow) type name
    pg_type,      \* is_compatible_type: the relational (PostgreSQL) type name
    compatible,   \* is_compatible_type: the value returned
    mapper_pc,    \* "call" before is_compatible_type ran, "done" after
    actual_df,    \* validate_dataframe_equality: argument actual_df
    expected_df,  \* validate_dataframe_equality: argument expected_df
    sort_by,      \* validate_dataframe_equality: argument sort_by (None or columns)
    check_dtype,  \* validate_dataframe_equality: argument check_dtype
    outcome,      \* validate_dataframe_equality: how the call ended
    validate_pc,  \* "call" before validate_dataframe_equality ran, "done" after
    postgres,     \* relational store: for each table the set of its rows
    s3,           \* object store: the objects by key, "absent" where none is stored
    now,          \* the wall clock in seconds (the timestamp of export keys)
    s3_df,        \* the result of the last read_parquet
    current,      \* the keys last written from a table not written to since
    last_write,   \* the last statement that changed each table
    new_result,   \* test_create_operation: the frame inserted and not yet uploaded
    tx_block,     \* the body of a `with postgres_client.transaction()` block
    tx_pc,        \* the next step of the body; 0 once the block is left
    tx_committed, \* the rows of the table as committed
    tx_conn,      \* the rows as the block's connection sees them
    tx_outcome,   \* "running", then "committed" or "raised"
    run_kind,     \* a run under the setup_test_data fixture, or one that cleans up inline
    run_pc,       \* the step of the run to take next
    run_rows,     \* the tables that hold committed rows under the run's key prefix
    run_objects,  \* the keys of the objects the run has put and not deleted
    run_paths,    \* s3_paths of the fixture
    run_trace,    \* what the run has done so far, in order
    run_failed,   \* the step at which the run failed, "none" before
    check_call,   \* a call of one of the scalar and record validators: its arguments
    check_result, \* how the call ended: "pass" or the exception raised
    check_pc,     \* "call" before the validator ran, "done" after
    client_call,     \* a call of an AWSClient or PostgresClient method and the store's answer
    client_result,   \* how the call ended: the value returned or the exception raised
    client_attempts, \* how many times the method issued its library call
    client_pc,    \* "call" before the method ran, "done" after
    api_request,     \* an HTTP request: endpoint, X-API-Key, patient_id and date filters
    api_db,          \* the database the session reads, and the execute call that fails
    api_response,    \* the HTTP response
    api_queries,     \* the tables of the queries issued on the session, in order
    api_pc,       \* "request" before the handler ran, "done" after
    schema_call,     \* a run of test_schema_consistency: the two column lists
    schema_result,   \* how the run ended: "pass" or the exception
    schema_pc        \* "call" before the test ran, "done" after

mapperVars == <<pa_type, pg_type, compatible, mapper_pc>>

validatorVars == <<actual_df, expected_df, sort_by, check_dtype, outcome, validate_pc>>

storeVars == <<postgres, s3, now, s3_df, current, last_write, new_result>>

txVars == <<tx_block, tx_pc, tx_committed, tx_conn, tx_outcome>>

runVars == <<run_kind, run_pc, run_rows, run_objects, run_paths, run_trace, run_failed>>

checkVars == <<check_call, check_result, check_pc>>

clientVars == <<client_call, client_result, client_attempts, client_pc>>

apiVars == <<api_request, api_db, api_response, api_queries, api_pc>>

schemaVars == <<schema_call, schema_result, schema_pc>>

vars == <<pa_type, pg_type, compatible, mapper_pc,
          actual_df, expected_df, sort_by, check_dtype, outcome, validate_pc,
          postgres, s3, now, s3_df, current, last_write, new_result,
          tx_block, tx_pc, tx_committed, tx_conn, tx_outcome,
          run_kind, run_pc, run_rows, run_objects, run_paths, run_trace, run_failed,
          check_call, check_result, check_pc,
          client_call, client_result, client_attempts, client_pc,
          api_request, api_db, api_response, api_queries, api_pc,
          schema_call, schema_result, schema_pc>>

----------------------------------------------------------------------------
(* Strings are sequences of one-character strings, so that Python's         *)
(* `x in s` (substring) and `s.lower()` are computed, not tabulated.        *)

Contains(sub, s) ==
    \E i \in 1..(Len(s) - Len(sub) + 1) : SubSeq(s, i, i + Len(sub) - 1) = sub

UpperToLower ==
    [c \in {"A", "B", "C", "D", "E", "F", "G", "H", "I", "J", "K", "L", "M",
            "N", "O", "P", "Q", "R", "S", "T", "U", "V", "W", "X", "Y", "Z"} |->
        CASE c = "A" -> "a" [] c = "B" -> "b" [] c = "C" -> "c" [] c = "D" -> "d"
          [] c = "E" -> "e" [] c = "F" -> "f" [] c = "G" -> "g" [] c = "H" -> "h"
          [] c = "I" -> "i" [] c = "J" -> "j" [] c = "K" -> "k" [] c = "L" -> "l"
          [] c = "M" -> "m" [] c = "N" -> "n" [] c = "O" -> "o" [] c = "P" -> "p"
          [] c = "Q" -> "q" [] c = "R" -> "r" [] c = "S" -> "s" [] c = "T" -> "t"
          [] c = "U" -> "u" [] c = "V" -> "v" [] c = "W" -> "w" [] c = "X" -> "x"
          [] c = "Y" -> "y" [] c = "Z" -> "z"]

Lower(s) ==
    [i \in 1..Len(s) |-> IF s[i] \in DOMAIN UpperToLower THEN UpperToLower[s[i]] ELSE s[i]]

\* The substrings and exact names the mapper looks for.
t_string    == <<"s","t","r","i","n","g">>
t_double    == <<"d","o","u","b","l","e">>
t_float     == <<"f","l","o","a","t">>
t_int       == <<"i","n","t">>
t_date      == <<"d","a","t","e">>
t_time      == <<"t","i","m","e">>
t_timestamp == <<"t","i","m","e","s","t","a","m","p">>

pg_character_varying == <<"c","h","a","r","a","c","t","e","r"," ","v","a","r","y","i","n","g">>
pg_text              == <<"t","e","x","t">>
pg_varchar           == <<"v","a","r","c","h","a","r">>
pg_double_precision  == <<"d","o","u","b","l","e"," ","p","r","e","c","i","s","i","o","n">>
pg_float8            == <<"f","l","o","a","t","8">>
pg_real              == <<"r","e","a","l">>
pg_integer           == <<"i","n","t","e","g","e","r">>
pg_time_without_tz   == <<"t","i","m","e"," ","w","i","t","h","o","u","t"," ","t","i","m","e"," ","z","o","n","e">>

\* The mutant of is_compatible_type: the date rule no longer accepts a
\* string-encoded date.
is_compatible_type_strict_date(pa, pg) ==
    LET pa_l == Lower(pa)
        pg_l == Lower(pg)
    IN  IF pg_l \in {pg_character_varying, pg_text, pg_varchar}
            THEN Contains(t_string, pa_l)
        ELSE IF pg_l \in {pg_double_precision, pg_float8, pg_real}
            THEN Contains(t_double, pa_l) \/ Contains(t_float, pa_l)
        ELSE IF pg_l \in {pg_integer, t_int}
            THEN Contains(t_int, pa_l)
        ELSE IF pg_l = t_date
            THEN Contains(t_date, pa_l) \/ Contains(t_timestamp, pa_l)
        ELSE IF pg_l = pg_time_without_tz
            THEN Contains(t_time, pa_l) \/ Contains(t_string, pa_l)
        ELSE IF Contains(t_timestamp, pg_l)
            THEN Contains(t_timestamp, pa_l) \/ Contains(t_string, pa_l)
        ELSE FALSE

is_compatible_type(pa, pg) ==
    LET pa_l == Lower(pa)
        pg_l == Lower(pg)
    IN  IF pg_l \in {pg_character_varying, pg_text, pg_varchar}
            THEN Contains(t_string, pa_l)
        ELSE IF pg_l \in {pg_double_precision, pg_float8, pg_real}
            THEN Contains(t_double, pa_l) \/ Contains(t_float, pa_l)
        ELSE IF pg_l \in {pg_integer, t_int}
            THEN Contains(t_int, pa_l)
        ELSE IF pg_l = t_date
            THEN Contains(t_date, pa_l) \/ Contains(t_timestamp, pa_l) \/ Contains(t_string, pa_l)
        ELSE IF pg_l = pg_time_without_tz
            THEN Contains(t_time, pa_l) \/ Contains(t_string, pa_l)
        ELSE IF Contains(t_timestamp, pg_l)
            THEN Contains(t_timestamp, pa_l) \/ Contains(t_string, pa_l)
        ELSE FALSE

\* Inputs of the mapper: the type names PyArrow and PostgreSQL produce for
\* the four tables, a few the mapper has no rule for, and two written in
\* upper case.
PaTypes ==
    { t_string,
      <<"l","a","r","g","e","_","s","t","r","i","n","g">>,
      t_double,
      t_float,
      <<"i","n","t","6","4">>,
      <<"u","i","n","t","8">>,
      <<"d","a","t","e","3","2","[","d","a","y","]">>,
      <<"t","i","m","e","6","4","[","u","s","]">>,
      <<"t","i","m","e","s","t","a","m","p","[","u","s","]">>,
      <<"b","o","o","l">>,
      <<"n","u","l","l">>,
      <<"S","t","r","i","n","g">> }

PgTypes ==
    { pg_character_varying, pg_text, pg_varchar,
      pg_double_precision, pg_float8, pg_real,
      pg_integer, t_int,
      t_date,
      pg_time_without_tz,
      <<"t","i","m","e","s","t","a","m","p"," ","w","i","t","h","o","u","t"," ","t","i","m","e"," ","z","o","n","e">>,
      <<"t","i","m","e","s","t","a","m","p"," ","w","i","t","h"," ","t","i","m","e"," ","z","o","n","e">>,
      <<"t","i","m","e"," ","w","i","t","h"," ","t","i","m","e"," ","z","o","n","e">>,
      <<"b","i","g","i","n","t">>,
      <<"n","u","m","e","r","i","c">>,
      <<"b","o","o","l","e","a","n">>,
      <<"D","A","T","E">> }

MapperInit ==
    /\ pa_type \in PaTypes
    /\ pg_type \in PgTypes
    /\ compatible = FALSE
    /\ mapper_pc = "call"

MapperIdle ==
    /\ pa_type = t_string
    /\ pg_type = pg_text
    /\ compatible = FALSE
    /\ mapper_pc = "done"

\* test_schema_consistency: assert is_compatible_type(pa_type, pg_type)
CheckCompatible ==
    /\ mapper_pc = "call"
    /\ compatible' = is_compatible_type(pa_type, pg_type)
    /\ mapper_pc' = "done"
    /\ UNCHANGED <<pa_type, pg_type>>

----------------------------------------------------------------------------
(* Datasets (pandas DataFrames) and BaseValidator.validate_dataframe_equality *)


\* A missing cell: None in an object column, NaN in a float64 column.
Null == -1

\* The most rows a dataset of the validator's inputs holds.
MaxRows == 2

\* Cell values stand for ordered scalars; the key column is never missing.
KeyVals == {0, 1}
CellVals == {0, Null}
DTypes == {"object", "float64"}

\* A DataFrame: the column labels in order, each column's dtype, the index
\* (its type and the row labels) and the rows, each a function from column
\* to cell.
DataFrame(cols, dtypes, index, data) ==
    [cols |-> cols, dtypes |-> dtypes, index |-> index, data |-> data]

Range(s) == {s[i] : i \in DOMAIN s}

\* pd.RangeIndex(n): the labels 0..n-1, held as a range.
RangeIndex(n) == [type |-> "RangeIndex", labels |-> [i \in 1..n |-> i - 1]]

\* pd.Index(labels, dtype='int64'): the labels held one by one.
Index(labels) == [type |-> "Index", labels |-> labels]

\* Index.take(positions) as pandas 2 computes it, on a RangeIndex as well:
\* an int64 Index of the labels at the positions.
take(index, positions) ==
    Index([p \in 1..Len(positions) |-> index.labels[positions[p]]])

\* df[mask] (DataFrame._getitem_bool_array): a mask that keeps every row
\* returns a copy of the frame; otherwise the rows at the kept positions
\* are taken, each with the label it had.
getitem_bool(df, kept) ==
    IF Len(kept) = Len(df.data) THEN df
    ELSE [df EXCEPT !.data = [p \in 1..Len(kept) |-> df.data[kept[p]]],
                    !.index = take(df.index, kept)]

\* x sorts strictly before y; missing values sort last (na_position='last').
CellLess(x, y) == x /= Null /\ (y = Null \/ x < y)

\* Lexicographic order of two rows on the sort columns `by`.
RowLess(r1, r2, by) ==
    \E k \in 1..Len(by) :
        /\ \A j \in 1..(k - 1) : r1[by[j]] = r2[by[j]]
        /\ CellLess(r1[by[k]], r2[by[k]])

\* The position each row takes in a stable sort on `by`: after every row
\* that sorts before it and every equal-keyed row that stood before it.
SortRank(data, by, i) ==
    1 + Cardinality({j \in 1..Len(data) :
            \/ RowLess(data[j], data[i], by)
            \/ (~RowLess(data[i], data[j], by) /\ j < i)})

\* argsort: the permutation a sort on `by` applies.
SortIndexer(data, by) ==
    [p \in 1..Len(data) |-> CHOOSE i \in 1..Len(data) : SortRank(data, by, i) = p]

\* DataFrame.sort_values(by=by): rows and their labels move together; a
\* frame already in order is copied as it is.
sort_values(df, by) ==
    LET ix == SortIndexer(df.data, by)
    IN  IF ix = [p \in 1..Len(df.data) |-> p] THEN df
        ELSE [df EXCEPT !.data = [p \in 1..Len(df.data) |-> df.data[ix[p]]],
                        !.index = take(df.index, ix)]

\* The mutant of reset_index: the row labels are kept.
reset_index_keep(df) == df

\* DataFrame.reset_index(drop=True): the row labels become 0..n-1.
reset_index(df) == [df EXCEPT !.index = RangeIndex(Len(df.data))]

\* array_equivalent on one position: equal values, or both missing.
CellEquals(x, y) == x = y

\* The mutant of SeriesEquals: the dtype of the two columns is not compared.
SeriesEqualsLoose(a, e, col) ==
    /\ a.index.labels = e.index.labels
    /\ \A i \in 1..Len(a.data) : CellEquals(a.data[i][col], e.data[i][col])

\* Series.equals on column col of both frames: same row labels, same
\* dtype, and position by position the same value.
SeriesEquals(a, e, col) ==
    /\ a.index.labels = e.index.labels
    /\ a.dtypes[col] = e.dtypes[col]
    /\ \A i \in 1..Len(a.data) : CellEquals(a.data[i][col], e.data[i][col])

\* DataFrame.equals: same column labels in the same order, same row
\* labels, and every column equal as a Series.
DataFrameEquals(a, e) ==
    /\ a.cols = e.cols
    /\ a.index.labels = e.index.labels
    /\ \A k \in 1..Len(a.cols) : SeriesEquals(a, e, a.cols[k])

\* How a call ends: kind is "pass", "ValidationError" or "KeyError"; a
\* ValidationError reports "dtypes" or "values" and lists its differences.
Outcome(kind, what, differences) ==
    [kind |-> kind, what |-> what, differences |-> differences]

NoOutcome == Outcome("none", "none", <<>>)

Difference(col, expected, got) == [col |-> col, expected |-> expected, got |-> got]

\* The mutant of SortColumns: without sort_by only the first column of
\* actual_df is sorted on.
SortColumnsFirstOnly(actual, sby) ==
    IF sby.given THEN sby.by ELSE SubSeq(actual.cols, 1, 1)

\* sort_by if it is given, otherwise every column of actual_df.
SortColumns(actual, sby) == IF sby.given THEN sby.by ELSE actual.cols

\* The mutant of DtypeDifferences: the report stops at the first column.
DtypeDifferencesFirstOnly(a, e) ==
    LET keep(col) == col \in Range(e.cols) /\ a.dtypes[col] /= e.dtypes[col]
        kept == SelectSeq(a.cols, keep)
    IN  [i \in 1..(IF kept = <<>> THEN 0 ELSE 1) |->
            Difference(kept[i], e.dtypes[kept[i]], a.dtypes[kept[i]])]

\* The dtype block: one entry, in the column order of actual, per column
\* of actual that expected also has under another dtype.
DtypeDifferences(a, e) ==
    LET keep(col) == col \in Range(e.cols) /\ a.dtypes[col] /= e.dtypes[col]
        kept == SelectSeq(a.cols, keep)
    IN  [i \in 1..Len(kept) |-> Difference(kept[i], e.dtypes[kept[i]], a.dtypes[kept[i]])]

\* The mutant of ValueDifferences: the report stops at the first column
\* that differs.
ValueDifferencesFirstOnly(a, e) ==
    LET keep(col) == ~SeriesEquals(a, e, col)
        kept == SelectSeq(a.cols, keep)
    IN  [i \in 1..(IF kept = <<>> THEN 0 ELSE 1) |-> Difference(kept[i], "", "")]

\* The value block: one entry, in the column order of actual, per column
\* of actual whose Series differ.
ValueDifferences(a, e) ==
    LET keep(col) == ~SeriesEquals(a, e, col)
        kept == SelectSeq(a.cols, keep)
    IN  [i \in 1..Len(kept) |-> Difference(kept[i], "", "")]

\* Everything after the sort: the dtype block, then the value block. The
\* value block reads expected_df[col] for every column of actual, which
\* raises KeyError for a column expected lacks.
CompareSorted(a, e, chk) ==
    IF chk /\ a.dtypes /= e.dtypes
        THEN Outcome("ValidationError", "dtypes", DtypeDifferences(a, e))
    ELSE IF DataFrameEquals(a, e)
        THEN Outcome("pass", "none", <<>>)
    ELSE IF \E k \in 1..Len(a.cols) : a.cols[k] \notin Range(e.cols)
        THEN Outcome("KeyError", "none", <<>>)
    ELSE Outcome("ValidationError", "values", ValueDifferences(a, e))

\* The mutant of validate_dataframe_equality: the frames are compared in
\* the row order they arrive in.
validate_dataframe_equality_unsorted(actual, expected, sby, chk) ==
    LET by == SortColumns(actual, sby)
    IN  IF ~(Range(by) \subseteq Range(actual.cols)) \/ ~(Range(by) \subseteq Range(expected.cols))
            THEN Outcome("KeyError", "none", <<>>)
        ELSE CompareSorted(reset_index(actual), reset_index(expected), chk)

validate_dataframe_equality(actual, expected, sby, chk) ==
    LET by == SortColumns(actual, sby)
    IN  IF ~(Range(by) \subseteq Range(actual.cols)) \/ ~(Range(by) \subseteq Range(expected.cols))
            THEN Outcome("KeyError", "none", <<>>)
        ELSE CompareSorted(reset_index(sort_values(actual, by)),
                           reset_index(sort_values(expected, by)), chk)


Base == <<"id", "a">>
Swapped == <<"a", "id">>
Wide == <<"id", "a", "b">>

AllObject(cols) == [c \in Range(cols) |-> "object"]

Rows == {r \in [Range(Base) -> KeyVals \cup CellVals] : r["id"] \in KeyVals /\ r["a"] \in CellVals}

RowSeqs == UNION {[1..n -> Rows] : n \in 0..MaxRows}

Reverse(d) == [i \in 1..Len(d) |-> d[Len(d) + 1 - i]]

\* Row sequences close to d: d itself, d reversed, d with the first row's
\* cell of column a replaced, d without its last row.
Variants(d) ==
    {d, Reverse(d)}
    \cup (IF d = <<>> THEN {}
          ELSE {[d EXCEPT ![1]["a"] = v] : v \in CellVals} \cup {SubSeq(d, 1, Len(d) - 1)})

\* The frame with one more column, every cell of it 0.
WithColumnB(df) ==
    [df EXCEPT !.cols = Wide,
               !.dtypes = AllObject(Wide),
               !.data = [i \in 1..Len(df.data) |->
                            [c \in Range(Wide) |-> IF c = "b" THEN 0 ELSE df.data[i][c]]]]

\* The frame with its columns in the order <<a, id>>.
WithSwappedColumns(df) == [df EXCEPT !.cols = Swapped]

\* A frame read from the relational store, and one read back from the
\* object store after a filter dropped the first stored row (its row labels
\* start at 1).
ActualFrame(d) == DataFrame(Base, AllObject(Base), RangeIndex(Len(d)), d)
ExpectedFrame(dt, d) == DataFrame(Base, dt, Index([i \in 1..Len(d) |-> i]), d)

NoSortBy == [given |-> FALSE, by |-> <<>>]
SortBy(cols) == [given |-> TRUE, by |-> cols]
SortBys == {NoSortBy, SortBy(<<"id">>), SortBy(<<"a">>)}

\* The inputs: (1) any two frames over the same columns and dtypes; (2) a
\* frame and a close variant of it under other dtypes; (3) a frame and the
\* same rows with a column more on either side, or the columns reordered.
FramePairs ==
    {<<ActualFrame(d1), ExpectedFrame(AllObject(Base), d2)>> : d1 \in RowSeqs, d2 \in RowSeqs}
    \cup UNION {{<<ActualFrame(d1), ExpectedFrame(dt, d2)>> :
                    d2 \in Variants(d1), dt \in [Range(Base) -> DTypes] \ {AllObject(Base)}}
                : d1 \in RowSeqs}
    \cup UNION {{<<WithColumnB(ActualFrame(d1)), ExpectedFrame(AllObject(Base), d2)>>,
                 <<ActualFrame(d1), WithColumnB(ExpectedFrame(AllObject(Base), d2))>>,
                 <<ActualFrame(d1), WithSwappedColumns(ExpectedFrame(AllObject(Base), d2))>>}
                : <<d1, d2>> \in {<<d, v>> \in RowSeqs \X RowSeqs : v \in {d, Reverse(d)}}}

ValidatorInit ==
    /\ \E pair \in FramePairs : actual_df = pair[1] /\ expected_df = pair[2]
    /\ sort_by \in SortBys
    /\ check_dtype \in BOOLEAN
    /\ outcome = NoOutcome
    /\ validate_pc = "call"

ValidatorIdle ==
    /\ actual_df = ActualFrame(<<>>)
    /\ expected_df = ActualFrame(<<>>)
    /\ sort_by = NoSortBy
    /\ check_dtype = TRUE
    /\ outcome = NoOutcome
    /\ validate_pc = "done"

\* validator.validate_dataframe_equality(actual_df, expected_df, sort_by=..., check_dtype=...)
Validate ==
    /\ validate_pc = "call"
    /\ outcome' = validate_dataframe_equality(actual_df, expected_df, sort_by, check_dtype)
    /\ validate_pc' = "done"
    /\ UNCHANGED <<actual_df, expected_df, sort_by, check_dtype>>

----------------------------------------------------------------------------
(* The relational store, the object store and the export between them *)

\* The last second the wall clock reaches.
MaxClock == 1

Tables == {"lab_results"}

\* Primary keys: those the tests insert carry the 'TEST' prefix, the rows
\* the schema was loaded with do not. Keys sort as their strings do.
LoadedKeys == {0}
TestKeys == {1}

\* str.startswith('TEST') on a key.
startswith_TEST(k) == k \in TestKeys

Row(k, v) == [c \in Range(Base) |-> IF c = "id" THEN k ELSE v]

\* The mutant of insert_row: the table has no primary-key constraint.
insert_row_unchecked(rows, k, v) == rows \cup {Row(k, v)}

\* INSERT INTO medate_exam.<table> ... VALUES (k, v): the primary key
\* rejects a second row under a key the table holds (IntegrityError; the
\* transaction rolls back).
insert_row(rows, k, v) ==
    IF \E r \in rows : r["id"] = k THEN rows ELSE rows \cup {Row(k, v)}

\* UPDATE medate_exam.<table> SET a = v WHERE id = k
update_row(rows, k, v) ==
    {IF r["id"] = k THEN [r EXCEPT !["a"] = v] ELSE r : r \in rows}

\* DELETE FROM medate_exam.<table> WHERE id = k
delete_row(rows, k) == {r \in rows : r["id"] /= k}

\* Every order in which a query without ORDER BY may return the rows.
RowOrders(rows) ==
    {d \in [1..Cardinality(rows) -> rows] : \A i, j \in DOMAIN d : d[i] = d[j] => i = j}

\* PostgresClient.read_table: SELECT * FROM schema.table into a DataFrame;
\* the results are the frames of every row order.
read_table(rows) ==
    {DataFrame(Base, AllObject(Base), RangeIndex(Len(d)), d) : d \in RowOrders(rows)}

\* pg_df[pg_df[id_col].str.startswith('TEST')]: the rows under the mask.
filter_TEST(df) ==
    LET mask(i) == startswith_TEST(df.data[i]["id"])
    IN  getitem_bool(df, SelectSeq([i \in 1..Len(df.data) |-> i], mask))

\* The Arrow type pa.Table.from_pandas infers for a column.
ArrowType(dtype, cells) ==
    IF dtype = "float64" THEN "double"
    ELSE IF \A i \in DOMAIN cells : cells[i] = Null THEN "null"
    ELSE "string"

\* The dtype Table.to_pandas gives a column of an Arrow type.
PandasDType(arrow) == IF arrow = "double" THEN "float64" ELSE "object"

IndexColumn == "__index_level_0__"

\* pa.Table.from_pandas(df) and pq.write_table: the frame column by column;
\* an index of type RangeIndex is kept as metadata, an index of any other
\* type as a column more, whatever its labels are.
to_parquet(df) ==
    LET n == Len(df.data)
        column(c) == [i \in 1..n |-> df.data[i][c]]
        ranged == df.index.type = "RangeIndex"
    IN  [names |-> IF ranged THEN df.cols ELSE Append(df.cols, IndexColumn),
         types |-> [c \in Range(df.cols) |-> ArrowType(df.dtypes[c], column(c))],
         columns |-> [c \in Range(df.cols) |-> column(c)],
         index |-> IF ranged THEN <<>> ELSE df.index.labels,
         num_rows |-> n]

\* pq.read_table(buffer).to_pandas(): the columns back into rows, the index
\* from the metadata or from the index column, which is not a data column.
from_parquet(obj) ==
    LET isData(c) == c /= IndexColumn
        cols == SelectSeq(obj.names, isData)
    IN  DataFrame(cols,
                  [c \in Range(cols) |-> PandasDType(obj.types[c])],
                  IF Len(cols) = Len(obj.names) THEN RangeIndex(obj.num_rows)
                  ELSE Index(obj.index),
                  [i \in 1..obj.num_rows |-> [c \in Range(cols) |-> obj.columns[c][i]]])

\* s3_key = f'parquet/{table}/{table}.parquet'
FixedKey(t) == [dir |-> "parquet", table |-> t, stamp |-> <<>>]

\* s3_key = f"raw/parquet/{table_name}/{table_name}_{timestamp}.parquet"
StampedKey(t, ts) == [dir |-> "raw/parquet", table |-> t, stamp |-> <<ts>>]

Keys == {FixedKey(t) : t \in Tables} \cup {StampedKey(t, ts) : t \in Tables, ts \in 0..MaxClock}

\* The mutant of put_object: an object already under the key stays.
put_object_keep_existing(store, key, body) ==
    [k \in DOMAIN store \cup {key} |-> IF k \in DOMAIN store THEN store[k] ELSE body]

\* s3.put_object(Bucket, Key, Body): the object under the key is replaced.
put_object(store, key, body) ==
    [k \in DOMAIN store \cup {key} |-> IF k = key THEN body ELSE store[k]]

NoKey == [dir |-> "", table |-> "", stamp |-> <<>>]

\* What read_parquet returned: the frame, or the error raised.
\* fresh: the object was an export of the table as it still is.
ReadResult(status, key, df, fresh) ==
    [status |-> status, key |-> key, df |-> df, fresh |-> fresh]

NoRead == ReadResult("none", NoKey, ActualFrame(<<>>), FALSE)

\* The local variables of test_create_operation between to_sql and
\* write_parquet: the one-row frame and the key made for it.
Pending(key, df) == [pending |-> TRUE, key |-> key, df |-> df]

NoPending == [pending |-> FALSE, key |-> NoKey, df |-> ActualFrame(<<>>)]

\* AWSClient.read_parquet(bucket, key)
read_parquet(store, key, fresh) ==
    IF key \notin DOMAIN store
        THEN ReadResult("FileNotFoundError", key, ActualFrame(<<>>), FALSE)
    ELSE ReadResult("ok", key, from_parquet(store[key]), fresh)

Statement(op, k) == [op |-> op, id |-> k]

StoreInit ==
    /\ postgres = [t \in Tables |-> {Row(k, 0) : k \in LoadedKeys}]
    /\ s3 = <<>>
    /\ now = 0
    /\ s3_df = NoRead
    /\ current = {}
    /\ last_write = [t \in Tables |-> Statement("none", 0)]
    /\ new_result = NoPending

\* The bookkeeping of a statement on table t: once the content of t has
\* changed, no object holds it and no frame read earlier shows it.
Written(t, op, k) ==
    LET changed == postgres'[t] /= postgres[t]
    IN  /\ current' = {key \in current : ~(changed /\ key.table = t)}
        /\ last_write' = IF changed THEN [last_write EXCEPT ![t] = Statement(op, k)]
                         ELSE last_write
        /\ s3_df' = IF changed /\ s3_df.key.table = t
                        THEN [s3_df EXCEPT !.fresh = FALSE] ELSE s3_df

\* with postgres_client.transaction() as conn: conn.execute(INSERT ...)
Insert(t, k, v) ==
    /\ postgres' = [postgres EXCEPT ![t] = insert_row(@, k, v)]
    /\ Written(t, "insert", k)
    /\ UNCHANGED <<s3, now, new_result>>

\* The mutant of Update: the update is carried into the object under the
\* fixed key at once.
Update_synced(t, k, v) ==
    /\ postgres' = [postgres EXCEPT ![t] = update_row(@, k, v)]
    /\ s3' = put_object(s3, FixedKey(t),
                        to_parquet(CHOOSE df \in read_table(postgres'[t]) : TRUE))
    /\ Written(t, "update", k)
    /\ UNCHANGED <<now, new_result>>

\* with postgres_client.transaction() as conn: conn.execute(UPDATE ...)
Update(t, k, v) ==
    /\ postgres' = [postgres EXCEPT ![t] = update_row(@, k, v)]
    /\ Written(t, "update", k)
    /\ UNCHANGED <<s3, now, new_result>>

\* with postgres_client.transaction() as conn: conn.execute(DELETE ...)
Delete(t, k) ==
    /\ postgres' = [postgres EXCEPT ![t] = delete_row(@, k)]
    /\ Written(t, "delete", k)
    /\ UNCHANGED <<s3, now, new_result>>

\* export_parquet.py: every table is read in full and uploaded under its
\* fixed key.
ExportParquet ==
    /\ \E dfs \in [Tables -> UNION {read_table(postgres[t]) : t \in Tables}] :
          /\ \A t \in Tables : dfs[t] \in read_table(postgres[t])
          /\ s3' = [k \in DOMAIN s3 \cup {FixedKey(t) : t \in Tables} |->
                      IF k.dir = "parquet" THEN to_parquet(dfs[k.table]) ELSE s3[k]]
    /\ current' = current \cup {FixedKey(t) : t \in Tables}
    /\ UNCHANGED <<postgres, now, s3_df, last_write, new_result>>

\* AWSClient.write_parquet(df, bucket, key)
write_parquet(store, df, key) == put_object(store, key, to_parquet(df))

\* The export step of the tests: read_table, the 'TEST' rows of it, and
\* write_parquet under the key of this second.
ExportTestRows(t) ==
    /\ \E pg_df \in read_table(postgres[t]) :
          s3' = write_parquet(s3, filter_TEST(pg_df), StampedKey(t, now))
    /\ current' = current \cup {StampedKey(t, now)}
    /\ UNCHANGED <<postgres, now, s3_df, last_write, new_result>>

\* test_create_operation, first half: the key is made from the clock and
\* the one-row frame new_result goes into the table (to_sql, if_exists=
\* 'append'). A key the table holds fails the test there. The fixture of
\* src/conftest.py seeds a table by the same two steps: write_dataframe
\* with if_exists='append', then the put of the frame under the stamped key.
CreateInsert(t, k, v) ==
    /\ \A r \in postgres[t] : r["id"] /= k
    /\ postgres' = [postgres EXCEPT ![t] = insert_row(@, k, v)]
    /\ new_result' = Pending(StampedKey(t, now), ActualFrame(<<Row(k, v)>>))
    /\ Written(t, "insert", k)
    /\ UNCHANGED <<s3, now>>

\* test_create_operation, second half: write_parquet(new_result, bucket,
\* s3_key). The object is not an export of the table.
CreateWrite ==
    /\ s3' = write_parquet(s3, new_result.df, new_result.key)
    /\ current' = current \ {new_result.key}
    /\ new_result' = NoPending
    /\ UNCHANGED <<postgres, now, s3_df, last_write>>

\* s3_df = aws_client.read_parquet(config.s3_bucket, s3_key)
ReadParquet(key) ==
    /\ s3_df' = read_parquet(s3, key, key \in current)
    /\ UNCHANGED <<postgres, s3, now, current, last_write, new_result>>

\* A second passes: datetime.now(UTC).strftime("%Y%m%dT%H%M%S") changes.
Tick ==
    /\ now < MaxClock
    /\ now' = now + 1
    /\ UNCHANGED <<postgres, s3, s3_df, current, last_write, new_result>>

\* The steps of the tests, one test at a time: test_create_operation
\* uploads its frame before anything else runs.
StoreNext ==
    IF new_result.pending THEN CreateWrite
    ELSE \/ \E t \in Tables, k \in TestKeys, v \in CellVals : Insert(t, k, v)
         \/ \E t \in Tables, k \in TestKeys, v \in CellVals : Update(t, k, v)
         \/ \E t \in Tables, k \in TestKeys : Delete(t, k)
         \/ \E t \in Tables, k \in TestKeys, v \in CellVals : CreateInsert(t, k, v)
         \/ ExportParquet
         \/ \E t \in Tables : ExportTestRows(t)
         \/ \E key \in Keys : ReadParquet(key)
         \/ Tick

----------------------------------------------------------------------------
(* PostgresClient.transaction *)

\* The most steps the body of a block takes.
MaxSteps == 3

TxKeys == {1, 2}

\* What the body does in one step: a statement on the connection, a call of
\* conn.commit(), or code that raises.
TxSteps ==
    {[op |-> "insert", id |-> k] : k \in TxKeys}
    \cup {[op |-> "delete", id |-> k] : k \in LoadedKeys}
    \cup {[op |-> "commit", id |-> 0], [op |-> "raise", id |-> 0]}

TxBlocks == UNION {[1..n -> TxSteps] : n \in 0..MaxSteps}

\* Whether conn.execute of the statement raises: the primary key rejects a
\* key the connection already sees.
StatementFails(rows, step) == step.op = "insert" /\ step.id \in rows

\* The rows the connection sees after the statement.
StatementEffect(rows, step) ==
    IF step.op = "insert" THEN rows \cup {step.id}
    ELSE IF step.op = "delete" THEN rows \ {step.id}
    ELSE rows

TxInit ==
    /\ tx_block \in TxBlocks
    /\ tx_pc = 1
    /\ tx_committed = LoadedKeys
    /\ tx_conn = LoadedKeys
    /\ tx_outcome = "running"

TxIdle ==
    /\ tx_block = <<>>
    /\ tx_pc = 0
    /\ tx_committed = LoadedKeys
    /\ tx_conn = LoadedKeys
    /\ tx_outcome = "committed"

TxRunning == tx_outcome = "running" /\ tx_pc \in DOMAIN tx_block

\* except Exception: conn.rollback(); raise -- finally: conn.close()
TxRollback ==
    /\ tx_conn' = tx_committed
    /\ tx_outcome' = "raised"
    /\ tx_pc' = 0
    /\ UNCHANGED <<tx_block, tx_committed>>

\* conn.execute(text(...)) in the body
TxExecute ==
    /\ TxRunning
    /\ tx_block[tx_pc].op \in {"insert", "delete"}
    /\ IF StatementFails(tx_conn, tx_block[tx_pc]) THEN TxRollback
       ELSE /\ tx_conn' = StatementEffect(tx_conn, tx_block[tx_pc])
            /\ tx_pc' = tx_pc + 1
            /\ UNCHANGED <<tx_block, tx_committed, tx_outcome>>

\* conn.commit() called by the body
TxBodyCommit ==
    /\ TxRunning
    /\ tx_block[tx_pc].op = "commit"
    /\ tx_committed' = tx_conn
    /\ tx_pc' = tx_pc + 1
    /\ UNCHANGED <<tx_block, tx_conn, tx_outcome>>

\* The body raises (a failed assertion, any other exception).
TxBodyRaises ==
    /\ TxRunning
    /\ tx_block[tx_pc].op = "raise"
    /\ TxRollback

\* The body returns: conn.commit() after the yield, then conn.close().
TxExit ==
    /\ tx_outcome = "running"
    /\ tx_pc = Len(tx_block) + 1
    /\ tx_committed' = tx_conn
    /\ tx_outcome' = "committed"
    /\ tx_pc' = 0
    /\ UNCHANGED <<tx_block, tx_conn>>

TxNext ==
    (TxExecute \/ TxBodyCommit \/ TxBodyRaises \/ TxExit)
        /\ UNCHANGED <<mapperVars, validatorVars, storeVars, runVars, checkVars,
                     clientVars, apiVars, schemaVars>>

----------------------------------------------------------------------------
(* A verification run: fixture, test body, cleanup *)

\* The order the fixture loads the tables in: a lab test names its
\* patient, a lab result its lab test, an admission its patient.
table_order == <<"patient_information", "lab_tests", "lab_results", "admissions">>

\* patient -> lab test -> lab result
DependentTables == {"patient_information", "lab_tests", "lab_results"}

SeedStep(i) == [step |-> "seed", table |-> table_order[i]]
Step(name) == [step |-> name, table |-> ""]

\* The key the fixture uploads a table under (its timestamp is second 0)
\* and the key a test body makes from its own reading of the clock.
RunKey(t, ts) == <<t, ts>>

FixtureKeys == {RunKey(table_order[i], 0) : i \in DOMAIN table_order}

RunInit ==
    /\ run_kind \in {"fixture", "inline"}
    /\ run_pc = IF run_kind = "fixture" THEN Step("preclean") ELSE Step("inline_seed")
    /\ run_rows \in {{}, {"patient_information"}, DependentTables}
    /\ run_objects = {}
    /\ run_paths = {}
    /\ run_trace = <<>>
    /\ run_failed = Step("none")

RunIdle ==
    /\ run_kind = "fixture"
    /\ run_pc = Step("done")
    /\ run_rows = {}
    /\ run_objects = {}
    /\ run_paths = {}
    /\ run_trace = <<>>
    /\ run_failed = Step("none")

\* The step raises: the run goes on at `handler`.
Fails(handler) ==
    /\ run_failed' = run_pc
    /\ run_trace' = Append(run_trace, "FAILED")
    /\ run_pc' = handler

\* The step returns: the run goes on at `next`, having done `events`.
Returns(next, events) ==
    /\ run_pc' = next
    /\ run_trace' = run_trace \o events
    /\ UNCHANGED run_failed

\* setup_test_data, before the try: the rows of earlier runs are deleted.
Preclean ==
    /\ run_pc = Step("preclean")
    /\ \/ run_rows' = {} /\ Returns(SeedStep(1), <<>>)
       \/ Fails(Step("done")) /\ UNCHANGED run_rows
    /\ UNCHANGED <<run_kind, run_objects, run_paths>>

\* setup_test_data: the INSERTs of one table, in a transaction of their own.
SeedTable(i) ==
    /\ run_pc = SeedStep(i)
    /\ \/ /\ run_rows' = run_rows \cup {table_order[i]}
          /\ IF i < Len(table_order) THEN Returns(SeedStep(i + 1), <<>>)
             ELSE Returns(Step("upload"), <<"SEEDED">>)
       \/ Fails(Step("cleanup_rows")) /\ UNCHANGED run_rows
    /\ UNCHANGED <<run_kind, run_objects, run_paths>>

\* setup_test_data: the test data of every table is put under the
\* fixture's keys, each key recorded in s3_paths once its put returned.
Upload ==
    /\ run_pc = Step("upload")
    /\ \/ /\ run_objects' = run_objects \cup FixtureKeys
          /\ run_paths' = FixtureKeys
          /\ Returns(Step("body_write"), <<>>)
       \/ \E n \in 0..(Len(table_order) - 1) :
             /\ run_objects' = run_objects \cup {RunKey(table_order[i], 0) : i \in 1..n}
             /\ run_paths' = {RunKey(table_order[i], 0) : i \in 1..n}
             /\ Fails(Step("cleanup_rows"))
    /\ UNCHANGED <<run_kind, run_rows>>

\* The test body: its own statement on the seeded rows, in a transaction
\* (test_delete_operation: DELETE ... WHERE result_id = 'TEST002').
BodyWrite ==
    /\ run_pc = Step("body_write")
    /\ \/ Returns(Step("export"), <<>>)
       \/ Fails(Step("cleanup_rows"))
    /\ UNCHANGED <<run_kind, run_rows, run_objects, run_paths>>

\* The test body: aws_client.write_parquet(pg_df, bucket, s3_key), the key
\* made from the fixture's timestamp or from the clock as the test reads it.
RunExport(ts) ==
    /\ run_pc = Step("export")
    /\ \/ /\ run_objects' = run_objects \cup {RunKey("lab_results", ts)}
          /\ Returns(Step("read_back"), <<"EXPORTED">>)
       \/ Fails(Step("cleanup_rows")) /\ UNCHANGED run_objects
    /\ UNCHANGED <<run_kind, run_rows, run_paths>>

\* The test body: s3_df = aws_client.read_parquet(bucket, s3_key)
RunReadBack ==
    /\ run_pc = Step("read_back")
    /\ \/ Returns(Step("compare"), <<"READ_BACK">>)
       \/ Fails(Step("cleanup_rows"))
    /\ UNCHANGED <<run_kind, run_rows, run_objects, run_paths>>

\* The test body: the validator call; it returns or raises ValidationError.
RunCompare ==
    /\ run_pc = Step("compare")
    /\ \/ Returns(Step("cleanup_rows"), <<"COMPARED">>)
       \/ /\ run_failed' = run_pc
          /\ run_trace' = run_trace \o <<"COMPARED", "FAILED">>
          /\ run_pc' = Step("cleanup_rows")
    /\ UNCHANGED <<run_kind, run_rows, run_objects, run_paths>>

\* setup_test_data, finally: the rows under the prefixes are deleted.
CleanupRows ==
    /\ run_pc = Step("cleanup_rows")
    /\ \/ run_rows' = {} /\ Returns(Step("cleanup_objects"), <<>>)
       \/ /\ run_pc' = Step("done")
          /\ UNCHANGED <<run_rows, run_trace, run_failed>>
    /\ UNCHANGED <<run_kind, run_objects, run_paths>>

\* s3_paths.values(): the recorded keys in the order they were recorded in,
\* which is the order of the uploads.
s3_paths_values(paths) ==
    LET recorded(key) == key \in paths
    IN  SelectSeq([i \in DOMAIN table_order |-> RunKey(table_order[i], 0)], recorded)

\* setup_test_data, finally: for s3_key in s3_paths.values(): delete_s3_object.
\* The keys are deleted one by one; a delete that raises ends the loop, and
\* the keys deleted before it stay deleted.
CleanupObjects ==
    /\ run_pc = Step("cleanup_objects")
    /\ LET keys == s3_paths_values(run_paths)
       IN  \/ /\ run_objects' = run_objects \ Range(keys)
              /\ Returns(Step("done"), <<"CLEANED_UP">>)
           \/ \E n \in 0..(Len(keys) - 1) :
                 /\ run_objects' = run_objects \ {keys[i] : i \in 1..n}
                 /\ run_pc' = Step("done")
                 /\ UNCHANGED <<run_trace, run_failed>>
    /\ UNCHANGED <<run_kind, run_rows, run_paths>>

\* test_data_consistency: patient, lab test and lab result inserted on one
\* connection and committed; a key already there fails the first INSERT.
InlineSeed ==
    /\ run_pc = Step("inline_seed")
    /\ \/ /\ run_rows = {}
          /\ run_rows' = DependentTables
          /\ Returns(Step("inline_compare"), <<"SEEDED">>)
       \/ Fails(Step("done")) /\ UNCHANGED run_rows
    /\ UNCHANGED <<run_kind, run_objects, run_paths>>

\* test_data_consistency: the row is read and its values validated.
InlineCompare ==
    /\ run_pc = Step("inline_compare")
    /\ \/ Returns(Step("inline_cleanup"), <<"COMPARED">>)
       \/ /\ run_failed' = run_pc
          /\ run_trace' = run_trace \o <<"COMPARED", "FAILED">>
          /\ run_pc' = Step("done")
    /\ UNCHANGED <<run_kind, run_rows, run_objects, run_paths>>

\* test_data_consistency: the three DELETEs and the commit at its end.
InlineCleanup ==
    /\ run_pc = Step("inline_cleanup")
    /\ \/ run_rows' = {} /\ Returns(Step("done"), <<"CLEANED_UP">>)
       \/ Fails(Step("done")) /\ UNCHANGED run_rows
    /\ UNCHANGED <<run_kind, run_objects, run_paths>>

RunNext ==
    (\/ Preclean
     \/ \E i \in DOMAIN table_order : SeedTable(i)
     \/ Upload
     \/ BodyWrite
     \/ \E ts \in 0..MaxClock : RunExport(ts)
     \/ RunReadBack
     \/ RunCompare
     \/ CleanupRows
     \/ CleanupObjects
     \/ InlineSeed
     \/ InlineCompare
     \/ InlineCleanup)
        /\ UNCHANGED <<mapperVars, validatorVars, storeVars, txVars, checkVars,
                     clientVars, apiVars, schemaVars>>

----------------------------------------------------------------------------
(* The scalar and record validators of BaseValidator *)

\* The largest magnitude of the integers the validators are called with.
MaxValue == 2

Values == (0 - MaxValue)..MaxValue

\* The mutant of validate_range: the upper bound is exclusive.
validate_range_exclusive(value, min_value, max_value) ==
    IF ~(min_value <= value /\ value < max_value) THEN "ValidationError" ELSE "pass"

\* if not min_value <= value <= max_value: raise ValidationError
validate_range(value, min_value, max_value) ==
    IF ~(min_value <= value /\ value <= max_value) THEN "ValidationError" ELSE "pass"

\* The mutant of validate_record_count: only a shortfall is an error.
validate_record_count_at_least(actual_count, expected_count) ==
    IF actual_count < expected_count THEN "ValidationError" ELSE "pass"

\* if actual_count != expected_count: raise ValidationError
validate_record_count(actual_count, expected_count) ==
    IF actual_count /= expected_count THEN "ValidationError" ELSE "pass"

\* DataFrame.empty: an axis of the frame has length 0.
empty(df) == Len(df.data) = 0 \/ Len(df.cols) = 0

\* The mutant of validate_record_exists: it never raises.
validate_record_exists_always(record, identifier) == "pass"

\* The mutant of validate_record_exists: it looks for the identifier among
\* the rows it is given.
validate_record_exists_by_identifier(record, identifier) ==
    IF \A i \in DOMAIN record.data : record.data[i]["id"] /= identifier
    THEN "ValidationError"
    ELSE "pass"

\* if record.empty: raise ValidationError; the identifier goes into the
\* message only.
validate_record_exists(record, identifier) ==
    IF empty(record) THEN "ValidationError" ELSE "pass"

\* if not record.empty: raise ValidationError
validate_record_not_exists(record, identifier) ==
    IF ~empty(record) THEN "ValidationError" ELSE "pass"

\* s3_df[s3_df['result_id'] == identifier]: the rows under the mask.
RecordsMatching(df, identifier) ==
    LET mask(i) == df.data[i]["id"] = identifier
    IN  getitem_bool(df, SelectSeq([i \in 1..Len(df.data) |-> i], mask))

\* A call on the rows of df under the identifier.
RecordCall(fn, df, identifier) ==
    [fn |-> fn, df |-> df, identifier |-> identifier, filtered |-> TRUE,
     value |-> 0, first |-> 0, second |-> 0]

\* A call on the frame as it was read, as test_create_operation makes it.
WholeFrameCall(fn, df, identifier) ==
    [fn |-> fn, df |-> df, identifier |-> identifier, filtered |-> FALSE,
     value |-> 0, first |-> 0, second |-> 0]

ScalarCall(fn, value, first, second) ==
    [fn |-> fn, df |-> ActualFrame(<<>>), identifier |-> 0, filtered |-> TRUE,
     value |-> value, first |-> first, second |-> second]

CheckCalls ==
    {RecordCall(fn, ActualFrame(d), k) :
        fn \in {"validate_record_exists", "validate_record_not_exists"},
        d \in RowSeqs, k \in KeyVals}
    \cup {WholeFrameCall("validate_record_exists", ActualFrame(d), k) :
            d \in RowSeqs, k \in KeyVals}
    \cup {ScalarCall("validate_record_count", 0, a, e) : a \in Values, e \in Values}
    \cup {ScalarCall("validate_range", v, lo, hi) : v \in Values, lo \in Values, hi \in Values}

CheckInit ==
    /\ check_call \in CheckCalls
    /\ check_result = "none"
    /\ check_pc = "call"

CheckIdle ==
    /\ check_call = ScalarCall("validate_record_count", 0, 0, 0)
    /\ check_result = "none"
    /\ check_pc = "done"

\* records = s3_df[s3_df['result_id'] == identifier]
\* validator.validate_record_exists(records, identifier, ...)
CheckRecordExists ==
    /\ check_pc = "call"
    /\ check_call.fn = "validate_record_exists"
    /\ check_call.filtered
    /\ check_result' =
          validate_record_exists(RecordsMatching(check_call.df, check_call.identifier),
                                 check_call.identifier)
    /\ check_pc' = "done"
    /\ UNCHANGED check_call

\* s3_df = aws_client.read_parquet(config.s3_bucket, s3_key)
\* validator.validate_record_exists(s3_df, ...)
CheckRecordExistsWholeFrame ==
    /\ check_pc = "call"
    /\ check_call.fn = "validate_record_exists"
    /\ ~check_call.filtered
    /\ check_result' = validate_record_exists(check_call.df, check_call.identifier)
    /\ check_pc' = "done"
    /\ UNCHANGED check_call

\* validator.validate_record_not_exists(records, identifier, ...)
CheckRecordNotExists ==
    /\ check_pc = "call"
    /\ check_call.fn = "validate_record_not_exists"
    /\ check_result' =
          validate_record_not_exists(RecordsMatching(check_call.df, check_call.identifier),
                                     check_call.identifier)
    /\ check_pc' = "done"
    /\ UNCHANGED check_call

\* validator.validate_record_count(actual_count, expected_count, ...)
CheckRecordCount ==
    /\ check_pc = "call"
    /\ check_call.fn = "validate_record_count"
    /\ check_result' = validate_record_count(check_call.first, check_call.second)
    /\ check_pc' = "done"
    /\ UNCHANGED check_call

\* validator.validate_range(value, min_value, max_value, field_name)
CheckRange ==
    /\ check_pc = "call"
    /\ check_call.fn = "validate_range"
    /\ check_result' = validate_range(check_call.value, check_call.first, check_call.second)
    /\ check_pc' = "done"
    /\ UNCHANGED check_call

----------------------------------------------------------------------------
(* The store clients: AWSClient and PostgresClient, one call of a method   *)
(* at a time: what the call leaves in the stores and how a failure of the  *)
(* library call under it reaches the caller.                               *)

\* e.response['Error']['Code'] of a botocore ClientError.  "403" is the code
\* the handlers compare with; the others are codes the service also answers.
ErrorCodes == {"403", "AccessDenied", "NoSuchKey", "NoSuchBucket", "SlowDown", "InternalError"}

\* Error.Code of the answers only the startup probe tells apart: a HEAD
\* answer has no body, so its code is the HTTP status.
StartupCodes == {"404", "InvalidAccessKeyId", "SignatureDoesNotMatch"}

\* The answers botocore's default retry policy sends the request again on
\* (HTTP 503 and 500).
TransientCodes == {"SlowDown", "InternalError"}

\* The attempts botocore's default (legacy) retry policy makes at most; the
\* client is created without a Config, so the default is in force.
max_attempts == 5

\* The object-store operations: the startup probe of AWSClient.__init__
\* and the six methods.
S3Ops == {"head_bucket", "read_parquet", "write_parquet", "list_objects",
          "delete_s3_object", "get_parquet_schema", "copy_object"}

DbOps == {"read_table", "execute_query", "write_dataframe"}

Return(value) == [kind |-> "return", value |-> value, code |-> "none"]

\* An exception leaving the method; a ClientError keeps its code.
Raise(exception, code) == [kind |-> "raise", value |-> exception, code |-> code]

NoResult == [kind |-> "none", value |-> "none", code |-> "none"]

\* AWSClient.__init__: the handlers around head_bucket. 403 is logged and
\* the client is returned; 404 raises ValueError past the outer handler,
\* which maps two credential codes to ValueError and raises the rest on.
init_except(code) ==
    IF code = "403" THEN Return("AWSClient")
    ELSE IF code = "404" THEN Raise("ValueError", "none")
    ELSE IF code \in {"InvalidAccessKeyId", "SignatureDoesNotMatch"}
        THEN Raise("ValueError", "none")
    ELSE Raise("ClientError", code)

\* except ClientError of read_parquet
read_parquet_except(code) ==
    IF code = "NoSuchKey" THEN Raise("FileNotFoundError", "none")
    ELSE IF code = "403" THEN Raise("PermissionError", "none")
    ELSE Raise("ClientError", code)

\* except ClientError of write_parquet
write_parquet_except(code) ==
    IF code = "NoSuchBucket" THEN Raise("ValueError", "none")
    ELSE IF code = "403" THEN Raise("PermissionError", "none")
    ELSE Raise("ClientError", code)

list_objects_raise_403(code) ==
    IF code = "403" THEN Raise("PermissionError", "none")
    ELSE Raise("ClientError", code)

\* except ClientError of list_objects
list_objects_except(code) ==
    IF code = "403" THEN Return("[]")
    ELSE Raise("ClientError", code)

\* except ClientError of delete_s3_object, get_parquet_schema and copy_object
raise_permission_except(code) ==
    IF code = "403" THEN Raise("PermissionError", "none")
    ELSE Raise("ClientError", code)

\* The arguments of a call that are keys, frames or modes: the key read,
\* written or deleted (the source key of a copy), the destination key of a
\* copy, the frame written, and if_exists of write_dataframe.
NoArgs == [key |-> NoKey, dest |-> NoKey, df |-> ActualFrame(<<>>), if_exists |-> "append"]

\* One call of a client method: the method, the answer the library call
\* under it ends with, whether a listing answer has 'Contents', whether the
\* pooled connection handed out had gone stale, how many attempts of the
\* request the store answered with a transient error before that, and the
\* arguments.
ClientCall(op, response, contents, stale) ==
    [op |-> op, response |-> response, contents |-> contents, stale |-> stale,
     transient |-> 0, args |-> NoArgs]

\* The call after the store answered `n` attempts with a transient error. An
\* answer that ends the call with a transient error is the last of
\* max_attempts.
Retried(call, n) == [call EXCEPT !.transient = n]

RetriesOf(response) ==
    IF response \in TransientCodes THEN {max_attempts - 1} ELSE 0..(max_attempts - 1)

\* The call with its key.
OnKey(call, key) == [call EXCEPT !.args.key = key]

\* The frames a caller writes: at most MaxRows rows, no row twice.
WrittenFrames ==
    UNION {{ActualFrame(d) : d \in RowOrders(rows)} :
              rows \in {r \in SUBSET {Row(k, v) : k \in LoadedKeys \cup TestKeys, v \in CellVals} :
                           Cardinality(r) <= MaxRows}}

IfExists == {"fail", "replace", "append"}

\* The calls without the retries of the library.
FirstAnswers ==
    {ClientCall("head_bucket", r, TRUE, FALSE) : r \in {"ok"} \cup ErrorCodes \cup StartupCodes}
    \cup {OnKey(ClientCall(op, r, TRUE, FALSE), key) :
        op \in {"read_parquet", "delete_s3_object", "get_parquet_schema"},
        r \in {"ok"} \cup ErrorCodes, key \in Keys}
    \cup {[ClientCall("write_parquet", r, TRUE, FALSE) EXCEPT !.args.key = key, !.args.df = df] :
            r \in {"ok"} \cup ErrorCodes, key \in Keys, df \in WrittenFrames}
    \cup {[ClientCall("copy_object", r, TRUE, FALSE) EXCEPT !.args.key = key, !.args.dest = dest] :
            r \in {"ok"} \cup ErrorCodes, key \in Keys, dest \in Keys}
    \cup {ClientCall("list_objects", r, TRUE, FALSE) : r \in {"ok"} \cup ErrorCodes}
    \cup {ClientCall("list_objects", "ok", FALSE, FALSE)}
    \cup {ClientCall(op, r, TRUE, stale) :
            op \in {"read_table", "execute_query"},
            r \in {"ok", "connect_error", "execute_error"}, stale \in BOOLEAN}
    \cup {[ClientCall("write_dataframe", r, TRUE, stale)
              EXCEPT !.args.df = df, !.args.if_exists = mode] :
            r \in {"ok", "connect_error", "execute_error"}, stale \in BOOLEAN,
            df \in WrittenFrames, mode \in IfExists}

ClientCalls ==
    UNION {IF call.op \in S3Ops THEN {Retried(call, n) : n \in RetriesOf(call.response)}
           ELSE {call} : call \in FirstAnswers}

\* get_object and copy_object succeed on a key the store holds and answer
\* NoSuchKey on a key it does not hold.
AnswerFitsStore(call, store) ==
    call.op \in {"read_parquet", "get_parquet_schema", "copy_object"} =>
        /\ call.response = "ok" => call.args.key \in DOMAIN store
        /\ call.response = "NoSuchKey" => call.args.key \notin DOMAIN store

\* The stores a call finds: the table as it was loaded, with or without a
\* test row, and no object, an export of its test rows under a stamped key,
\* or that and a full export under the fixed key.
ClientStores ==
    LET loaded == {Row(k, 0) : k \in LoadedKeys}
        tables == {loaded} \cup {loaded \cup {Row(k, 0)} : k \in TestKeys}
        objects(t, df, n) ==
            IF n = 0 THEN <<>>
            ELSE IF n = 1 THEN write_parquet(<<>>, filter_TEST(df), StampedKey(t, 0))
            ELSE write_parquet(write_parquet(<<>>, filter_TEST(df), StampedKey(t, 0)),
                               df, FixedKey(t))
    IN  UNION {{[postgres |-> [u \in Tables |-> rows], s3 |-> objects(t, df, n)] :
                   df \in read_table(rows), t \in Tables, n \in 0..2} : rows \in tables}

ClientInit ==
    /\ client_call \in ClientCalls
    /\ client_result = NoResult
    /\ client_attempts = 0
    /\ client_pc = "call"

\* The stores as a call of a client method finds them.
ClientStoreInit ==
    /\ \E store \in ClientStores :
          /\ postgres = store.postgres
          /\ s3 = store.s3
          /\ AnswerFitsStore(client_call, store.s3)
    /\ now = 0
    /\ s3_df = NoRead
    /\ current = {}
    /\ last_write = [t \in Tables |-> Statement("none", 0)]
    /\ new_result = NoPending

ClientIdle ==
    /\ client_call = ClientCall("list_objects", "ok", FALSE, FALSE)
    /\ client_result = NoResult
    /\ client_attempts = 0
    /\ client_pc = "done"

\* The method issues its library call once and leaves with the result.
Leaves(result) ==
    /\ client_result' = result
    /\ client_attempts' = client_attempts + 1
    /\ client_pc' = "done"
    /\ UNCHANGED client_call

\* The attempts that end without the method being left: the requests the
\* object store answered with a transient error, and the ping of a stale
\* pooled connection.
FailedFirst(call) ==
    IF call.op \in S3Ops THEN call.transient
    ELSE IF call.stale THEN 1 ELSE 0

\* The method is at the attempt that ends it.
Calls(op) ==
    /\ client_pc = "call"
    /\ client_call.op = op
    /\ client_attempts = FailedFirst(client_call)

\* botocore answers a transient error of the object store by sending the
\* request again: the error does not reach the method.
BotocoreRetry ==
    /\ client_pc = "call"
    /\ client_call.op \in S3Ops
    /\ client_attempts < client_call.transient
    /\ client_attempts' = client_attempts + 1
    /\ UNCHANGED <<client_call, client_result, client_pc>>
    /\ UNCHANGED storeVars

\* pool_pre_ping=True: the pool pings the connection it hands out; the ping
\* of a stale connection fails and the pool connects anew, so the failure
\* does not reach the method.
PoolPrePing ==
    /\ client_pc = "call"
    /\ client_call.op \in DbOps
    /\ client_call.stale
    /\ client_attempts = 0
    /\ client_attempts' = client_attempts + 1
    /\ UNCHANGED <<client_call, client_result, client_pc>>
    /\ UNCHANGED storeVars

\* The call changes neither store.
ReadsOnly == UNCHANGED storeVars

\* The object store after the call, the relational store as it was.
Stores(objects) ==
    /\ s3' = objects
    /\ UNCHANGED <<postgres, now, s3_df, current, last_write, new_result>>

\* s3.delete_object(Bucket, Key): no object is under the key afterwards.
delete_object(store, key) == [k \in DOMAIN store \ {key} |-> store[k]]

\* s3.copy_object(CopySource, Bucket, Key): the object under the source key
\* is under the destination key as well, in place of what was there.
copy_object(store, source_key, dest_key) == put_object(store, dest_key, store[source_key])

\* AWSClient(): boto3.client, then the head_bucket probe of the bucket.
HeadBucketCall ==
    /\ Calls("head_bucket")
    /\ Leaves(IF client_call.response = "ok" THEN Return("AWSClient")
              ELSE init_except(client_call.response))
    /\ ReadsOnly

ReadParquetCall ==
    /\ Calls("read_parquet")
    /\ Leaves(IF client_call.response = "ok" THEN Return("DataFrame")
              ELSE read_parquet_except(client_call.response))
    /\ ReadsOnly

WriteParquetCall ==
    /\ Calls("write_parquet")
    /\ Leaves(IF client_call.response = "ok" THEN Return("None")
              ELSE write_parquet_except(client_call.response))
    /\ Stores(IF client_call.response = "ok"
              THEN write_parquet(s3, client_call.args.df, client_call.args.key) ELSE s3)

ListObjectsCall ==
    /\ Calls("list_objects")
    /\ Leaves(IF client_call.response = "ok"
              THEN (IF client_call.contents THEN Return("keys") ELSE Return("[]"))
              ELSE list_objects_except(client_call.response))
    /\ ReadsOnly

DeleteObjectCall ==
    /\ Calls("delete_s3_object")
    /\ Leaves(IF client_call.response = "ok" THEN Return("None")
              ELSE raise_permission_except(client_call.response))
    /\ Stores(IF client_call.response = "ok"
              THEN delete_object(s3, client_call.args.key) ELSE s3)

GetParquetSchemaCall ==
    /\ Calls("get_parquet_schema")
    /\ Leaves(IF client_call.response = "ok" THEN Return("schema_dict")
              ELSE raise_permission_except(client_call.response))
    /\ ReadsOnly

CopyObjectCall ==
    /\ Calls("copy_object")
    /\ Leaves(IF client_call.response = "ok" THEN Return("None")
              ELSE raise_permission_except(client_call.response))
    /\ Stores(IF client_call.response = "ok"
              THEN copy_object(s3, client_call.args.key, client_call.args.dest) ELSE s3)

\* with self.engine.connect() as conn: the pool hands out the pooled
\* connection, or a new one in place of a stale one (pool_pre_ping), or
\* connecting fails; then the statement runs on it.
engine_connect(call) ==
    IF call.response = "connect_error" THEN Raise("OperationalError", "none")
    ELSE IF call.stale THEN Return("new connection")
    ELSE Return("pooled connection")

ReadTableCall ==
    /\ Calls("read_table")
    /\ Leaves(IF engine_connect(client_call).kind = "raise" THEN engine_connect(client_call)
              ELSE IF client_call.response = "execute_error"
                   THEN Raise("DatabaseError", "none")
                   ELSE Return("DataFrame"))
    /\ ReadsOnly

ExecuteQueryCall ==
    /\ Calls("execute_query")
    /\ Leaves(IF engine_connect(client_call).kind = "raise" THEN engine_connect(client_call)
              ELSE IF client_call.response = "execute_error"
                   THEN Raise("ProgrammingError", "none")
                   ELSE Return("rows"))
    /\ ReadsOnly

\* df.to_sql(table_name, conn, schema=schema, if_exists=if_exists,
\* index=False) on a table that exists: 'fail' raises ValueError; 'append'
\* inserts every row of the frame, and a row under a key the table or
\* an earlier row of the frame holds raises IntegrityError; 'replace' drops
\* the table and creates it anew, without its primary key, from the frame.
to_sql(rows, df, if_exists) ==
    LET keys == [i \in 1..Len(df.data) |-> df.data[i]["id"]]
        collides == \/ \E i \in DOMAIN keys : \E r \in rows : r["id"] = keys[i]
                    \/ \E i, j \in DOMAIN keys : i /= j /\ keys[i] = keys[j]
    IN  IF if_exists = "fail" THEN Raise("ValueError", "none")
        ELSE IF if_exists = "append" /\ collides THEN Raise("IntegrityError", "none")
        ELSE Return(IF if_exists = "append" THEN rows \cup Range(df.data) ELSE Range(df.data))

\* PostgresClient.write_dataframe: to_sql inside engine.begin(), which
\* commits when the block returns and rolls back when it raises.
write_dataframe(call, rows) ==
    IF engine_connect(call).kind = "raise" THEN engine_connect(call)
    ELSE IF call.response = "execute_error" THEN Raise("DatabaseError", "none")
    ELSE to_sql(rows, call.args.df, call.args.if_exists)

WriteDataframeCall ==
    /\ Calls("write_dataframe")
    /\ \E t \in Tables :
          LET result == write_dataframe(client_call, postgres[t])
          IN  /\ Leaves(IF result.kind = "raise" THEN result ELSE Return("None"))
              /\ postgres' = IF result.kind = "raise" THEN postgres
                             ELSE [postgres EXCEPT ![t] = result.value]
    /\ UNCHANGED <<s3, now, s3_df, current, last_write, new_result>>

----------------------------------------------------------------------------
(* The HTTP API: GET /health, GET /api/v1/patients/{patient_id} and        *)
(* GET /api/v1/patients/{patient_id}/lab_results over a database session.  *)

PatientIds == {1, 2}

Dates == {1, 2}

\* The header X-API-Key of a request; Missing when the request has none.
Missing == "<missing>"

ApiKeys == {"test_api_key", "invalid_key", Missing}

Endpoints == {"health", "patient", "lab_results"}

\* The rows the tables can hold: lab test t is of patient t; a lab result
\* names its test; an admission names its patient.
LabTestRows == {[test_id |-> p, patient_id |-> p] : p \in PatientIds}

LabResultRows ==
    {[result_id |-> 1, test_id |-> 1, performed_date |-> 1],
     [result_id |-> 2, test_id |-> 2, performed_date |-> 2]}

AdmissionRows ==
    {[hospitalization_case_number |-> 1, patient_id |-> 1],
     [hospitalization_case_number |-> 2, patient_id |-> 1],
     [hospitalization_case_number |-> 3, patient_id |-> 2]}

\* A state of the four tables that respects their foreign keys, and the
\* execute call of the request, if any, on which the session raises.
Databases ==
    {[patient_information |-> ps, lab_tests |-> ts, lab_results |-> rs,
      admissions |-> ads, fails |-> f] :
        ps \in SUBSET PatientIds,
        ts \in SUBSET LabTestRows,
        rs \in SUBSET LabResultRows,
        ads \in SUBSET AdmissionRows,
        f \in {"never", "first", "second"}}

ForeignKeysHold(db) ==
    /\ \A t \in db.lab_tests : t.patient_id \in db.patient_information
    /\ \A r \in db.lab_results : \E t \in db.lab_tests : t.test_id = r.test_id
    /\ \A a \in db.admissions : a.patient_id \in db.patient_information

\* from_date and to_date are 0 when the parameter is omitted or empty.
Request(endpoint, key, patient_id, from_date, to_date) ==
    [endpoint |-> endpoint, x_api_key |-> key, patient_id |-> patient_id,
     from_date |-> from_date, to_date |-> to_date]

Requests ==
    {Request("health", k, 0, 0, 0) : k \in ApiKeys}
    \cup {Request("patient", k, p, 0, 0) : k \in ApiKeys, p \in PatientIds}
    \cup {Request("lab_results", k, p, f, t) :
            k \in ApiKeys, p \in PatientIds, f \in {0} \cup Dates, t \in {0} \cup Dates}

Detail(text, patient_id) == [text |-> text, patient_id |-> patient_id]

\* An HTTP response: data is the set of rows of the body, each row of the
\* lab results query one combination of the joined tables.
Response(status_code, detail, data, record_count) ==
    [status_code |-> status_code, detail |-> detail, data |-> data,
     record_count |-> record_count]

NoResponse == Response(0, Detail("none", 0), {}, 0)

HTTPException(status_code, detail) == Response(status_code, detail, {}, 0)

\* What a handler did: the response and the queries it issued, in order.
Handled(response, queries) == [response |-> response, queries |-> queries]

verify_api_key_nonempty(x_api_key) == x_api_key /= ""

verify_api_key(x_api_key) == x_api_key = "test_api_key"

health_check(request) == Handled(Response(200, Detail("healthy", 0), {}, 0), <<>>)

\* except HTTPException: raise / except Exception: raise HTTPException(500)
handle_exception_always_500(raised, text) == HTTPException(500, Detail(text, 0))

handle_exception(raised, text) ==
    IF raised.status_code /= 0 THEN raised
    ELSE HTTPException(500, Detail(text, 0))

\* An exception that is not an HTTPException, raised by db.execute.
StoreError == NoResponse

\* The try block of get_patient.
get_patient_try(request, db) ==
    IF db.fails = "first" THEN StoreError
    ELSE IF request.patient_id \notin db.patient_information
         THEN HTTPException(404, Detail("Patient {patient_id} not found", request.patient_id))
         ELSE Response(200, Detail("none", 0), {request.patient_id}, 0)

get_patient_query_first(request, db) ==
    LET tried == get_patient_try(request, db)
    IN  Handled(IF ~verify_api_key(request.x_api_key)
                THEN HTTPException(401, Detail("Invalid API key", 0))
                ELSE IF tried.status_code = 200 THEN tried
                ELSE handle_exception(tried,
                        "Internal server error occurred while retrieving patient data"),
                <<"patient_information">>)

get_patient(request, db) ==
    IF ~verify_api_key(request.x_api_key)
    THEN Handled(HTTPException(401, Detail("Invalid API key", 0)), <<>>)
    ELSE LET tried == get_patient_try(request, db)
         IN  Handled(IF tried.status_code = 200 THEN tried
                     ELSE handle_exception(tried,
                            "Internal server error occurred while retrieving patient data"),
                     <<"patient_information">>)

\* SELECT lr.*, lt.test_name FROM lab_results lr
\*   JOIN lab_tests lt ON lr.test_id = lt.test_id
\*   JOIN admissions a ON a.patient_id = :patient_id
\*     [AND lr.performed_date >= :from_date] [AND lr.performed_date <= :to_date]
lab_results_query(request, db) ==
    {[lr |-> lr, lt |-> lt, a |-> a.hospitalization_case_number] :
        <<lr, lt, a>> \in
            {c \in db.lab_results \X db.lab_tests \X db.admissions :
                /\ c[1].test_id = c[2].test_id
                /\ c[3].patient_id = request.patient_id
                /\ request.from_date /= 0 => c[1].performed_date >= request.from_date
                /\ request.to_date /= 0 => c[1].performed_date <= request.to_date}}

lab_results_try_unchecked(request, db) ==
    IF db.fails = "first" THEN Handled(StoreError, <<"patient_information">>)
    ELSE IF db.fails = "second"
         THEN Handled(StoreError, <<"patient_information", "lab_results">>)
         ELSE Handled(Response(200, Detail("none", 0), lab_results_query(request, db),
                               Cardinality(lab_results_query(request, db))),
                      <<"patient_information", "lab_results">>)

\* The try block of get_patient_lab_results.
lab_results_try(request, db) ==
    IF db.fails = "first" THEN Handled(StoreError, <<"patient_information">>)
    ELSE IF request.patient_id \notin db.patient_information
         THEN Handled(HTTPException(404, Detail("Patient {patient_id} not found",
                                                 request.patient_id)),
                      <<"patient_information">>)
         ELSE IF db.fails = "second"
              THEN Handled(StoreError, <<"patient_information", "lab_results">>)
              ELSE Handled(Response(200, Detail("none", 0), lab_results_query(request, db),
                                    Cardinality(lab_results_query(request, db))),
                           <<"patient_information", "lab_results">>)

get_patient_lab_results(request, db) ==
    IF ~verify_api_key(request.x_api_key)
    THEN Handled(HTTPException(401, Detail("Invalid API key", 0)), <<>>)
    ELSE LET tried == lab_results_try(request, db)
         IN  Handled(IF tried.response.status_code = 200 THEN tried.response
                     ELSE handle_exception(tried.response,
                            "Internal server error occurred while retrieving lab results"),
                     tried.queries)

\* x_api_key: str = Header(...): a request without the header is refused
\* by the framework before the handler runs.
RequiredHeader(request) ==
    Handled(HTTPException(422, Detail("Field required", 0)), <<>>)

ApiInit ==
    /\ api_request \in Requests
    /\ api_db \in {db \in Databases : ForeignKeysHold(db)}
    /\ api_response = NoResponse
    /\ api_queries = <<>>
    /\ api_pc = "request"

ApiIdle ==
    /\ api_request = Request("health", Missing, 0, 0, 0)
    /\ api_db = [patient_information |-> {}, lab_tests |-> {}, lab_results |-> {},
                 admissions |-> {}, fails |-> "never"]
    /\ api_response = NoResponse
    /\ api_queries = <<>>
    /\ api_pc = "done"

Answers(handled) ==
    /\ api_response' = handled.response
    /\ api_queries' = handled.queries
    /\ api_pc' = "done"
    /\ UNCHANGED <<api_request, api_db>>

GetHealth ==
    /\ api_pc = "request"
    /\ api_request.endpoint = "health"
    /\ Answers(health_check(api_request))

GetPatient ==
    /\ api_pc = "request"
    /\ api_request.endpoint = "patient"
    /\ Answers(IF api_request.x_api_key = Missing THEN RequiredHeader(api_request)
               ELSE get_patient(api_request, api_db))

GetPatientLabResults ==
    /\ api_pc = "request"
    /\ api_request.endpoint = "lab_results"
    /\ Answers(IF api_request.x_api_key = Missing THEN RequiredHeader(api_request)
               ELSE get_patient_lab_results(api_request, api_db))

----------------------------------------------------------------------------
(* The schema consistency check: the column list of a table in the         *)
(* relational store against the schema of its Parquet file.                *)

ColumnNames == {"a", "b"}

SchemaPgTypes == {pg_text, pg_integer, t_int, t_date}

SchemaPaTypes ==
    {t_string, <<"i","n","t","6","4">>, <<"d","a","t","e","3","2","[","d","a","y","]">>}

\* A Column Schema Entry: the column's name and its type name.
Column(name, type) == [name |-> name, type |-> type]

\* The column lists over the given types: no name twice.
Schemas(types) ==
    {<<>>}
    \cup {<<Column(n, t)>> : n \in ColumnNames, t \in types}
    \cup {<<Column(n1, t1), Column(n2, t2)>> :
            <<n1, n2>> \in {p \in ColumnNames \X ColumnNames : p[1] /= p[2]},
            <<t1, t2>> \in types \X types}

\* parquet_schema.names
names(schema) == {schema[i].name : i \in DOMAIN schema}

\* parquet_schema.field(pg_col).type
field_type(schema, name) ==
    (CHOOSE c \in {schema[i] : i \in DOMAIN schema} : c.name = name).type

\* for pg_col, pg_type in pg_schema.items():
\*     assert pg_col in parquet_schema.names
\*     assert is_compatible_type(parquet_schema.field(pg_col).type, pg_type)
compare_schemas(pg_schema, parquet_schema) ==
    IF \A i \in DOMAIN pg_schema :
            /\ pg_schema[i].name \in names(parquet_schema)
            /\ is_compatible_type(field_type(parquet_schema, pg_schema[i].name),
                                  pg_schema[i].type)
    THEN "pass"
    ELSE "AssertionError"

\* tests/test_schema_consistency.py: download_parquet returns a pandas
\* DataFrame, and pa_schema reads df.schema, which a DataFrame has not.
pa_schema(df) == "AttributeError"

SchemaCall(test, pg_schema, parquet_schema) ==
    [test |-> test, pg_schema |-> pg_schema, parquet_schema |-> parquet_schema]

SchemaInit ==
    /\ schema_call \in
          {SchemaCall(test, pg, pq) :
              test \in {"data validation", "tests"},
              pg \in Schemas(SchemaPgTypes), pq \in Schemas(SchemaPaTypes)}
    /\ schema_result = "none"
    /\ schema_pc = "call"

SchemaIdle ==
    /\ schema_call = SchemaCall("tests", <<>>, <<>>)
    /\ schema_result = "none"
    /\ schema_pc = "done"

\* tests/data validation/test_schema_consistency.py::test_schema_consistency
TestSchemaConsistency ==
    /\ schema_pc = "call"
    /\ schema_call.test = "data validation"
    /\ schema_result' = compare_schemas(schema_call.pg_schema, schema_call.parquet_schema)
    /\ schema_pc' = "done"
    /\ UNCHANGED schema_call

\* tests/test_schema_consistency.py::test_schema_consistency
TestSchemaConsistencyDownloaded ==
    /\ schema_pc = "call"
    /\ schema_call.test = "tests"
    /\ schema_result' = pa_schema(schema_call.parquet_schema)
    /\ schema_pc' = "done"
    /\ UNCHANGED schema_call

----------------------------------------------------------------------------
(* The specifications: each runs one part of the program and leaves the   *)
(* others idle.                                                            *)

ClientNext ==
    (\/ BotocoreRetry \/ PoolPrePing \/ HeadBucketCall
     \/ ReadParquetCall \/ WriteParquetCall \/ ListObjectsCall \/ DeleteObjectCall
     \/ GetParquetSchemaCall \/ CopyObjectCall \/ ReadTableCall \/ ExecuteQueryCall
     \/ WriteDataframeCall)
        /\ UNCHANGED <<mapperVars, validatorVars, txVars, runVars, checkVars,
                       apiVars, schemaVars>>

InitClient ==
    ClientInit /\ ClientStoreInit /\ MapperIdle /\ ValidatorIdle /\ TxIdle /\ RunIdle
        /\ CheckIdle /\ ApiIdle /\ SchemaIdle

SpecClient == InitClient /\ [][ClientNext]_vars

ApiNext ==
    (GetHealth \/ GetPatient \/ GetPatientLabResults)
        /\ UNCHANGED <<mapperVars, validatorVars, storeVars, txVars, runVars, checkVars,
                       clientVars, schemaVars>>

InitApi ==
    ApiInit /\ MapperIdle /\ ValidatorIdle /\ StoreInit /\ TxIdle /\ RunIdle /\ CheckIdle
        /\ ClientIdle /\ SchemaIdle

SpecApi == InitApi /\ [][ApiNext]_vars

SchemaNext ==
    (TestSchemaConsistency \/ TestSchemaConsistencyDownloaded)
        /\ UNCHANGED <<mapperVars, validatorVars, storeVars, txVars, runVars, checkVars,
                       clientVars, apiVars>>

InitSchema ==
    SchemaInit /\ MapperIdle /\ ValidatorIdle /\ StoreInit /\ TxIdle /\ RunIdle /\ CheckIdle
        /\ ClientIdle /\ ApiIdle

SpecSchema == InitSchema /\ [][SchemaNext]_vars

InitTransaction == TxInit /\ MapperIdle /\ ValidatorIdle /\ StoreInit /\ RunIdle /\ CheckIdle
        /\ ClientIdle /\ ApiIdle /\ SchemaIdle

SpecTransaction == InitTransaction /\ [][TxNext]_vars

InitRun == RunInit /\ MapperIdle /\ ValidatorIdle /\ StoreInit /\ TxIdle /\ CheckIdle
        /\ ClientIdle /\ ApiIdle /\ SchemaIdle

SpecRun == InitRun /\ [][RunNext]_vars

CheckNext ==
    (\/ CheckRecordExists \/ CheckRecordExistsWholeFrame \/ CheckRecordNotExists
     \/ CheckRecordCount \/ CheckRange)
        /\ UNCHANGED <<mapperVars, validatorVars, storeVars, txVars, runVars,
                     clientVars, apiVars, schemaVars>>

InitChecks == CheckInit /\ MapperIdle /\ ValidatorIdle /\ StoreInit /\ TxIdle /\ RunIdle
        /\ ClientIdle /\ ApiIdle /\ SchemaIdle

SpecChecks == InitChecks /\ [][CheckNext]_vars

Next == StoreNext /\ UNCHANGED <<mapperVars, validatorVars, txVars, runVars, checkVars,
                     clientVars, apiVars, schemaVars>>

Init == StoreInit /\ MapperIdle /\ ValidatorIdle /\ TxIdle /\ RunIdle /\ CheckIdle
        /\ ClientIdle /\ ApiIdle /\ SchemaIdle

Spec == Init /\ [][Next]_vars

ValidatorNext == Validate /\ UNCHANGED <<mapperVars, storeVars, txVars, runVars, checkVars,
                     clientVars, apiVars, schemaVars>>

InitValidator == ValidatorInit /\ MapperIdle /\ StoreInit /\ TxIdle /\ RunIdle /\ CheckIdle
        /\ ClientIdle /\ ApiIdle /\ SchemaIdle

SpecValidator == InitValidator /\ [][ValidatorNext]_vars



MapperNext == CheckCompatible /\ UNCHANGED <<validatorVars, storeVars, txVars, runVars, checkVars,
                     clientVars, apiVars, schemaVars>>

InitMapper == MapperInit /\ ValidatorIdle /\ StoreInit /\ TxIdle /\ RunIdle /\ CheckIdle
        /\ ClientIdle /\ ApiIdle /\ SchemaIdle

SpecMapper == InitMapper /\ [][MapperNext]_vars

----------------------------------------------------------------------------
(* C1 *)

IsLowercase(s) == \A i \in 1..Len(s) : s[i] \notin DOMAIN UpperToLower

\* The rules as the specification lists them: (exact relational names,
\* relational substring, accepted columnar substrings), in priority order.
CompatRules ==
    << [names |-> {pg_character_varying, pg_text, pg_varchar}, within |-> {}, accepts |-> {t_string}],
       [names |-> {pg_double_precision, pg_float8, pg_real}, within |-> {}, accepts |-> {t_double, t_float}],
       [names |-> {pg_integer, t_int}, within |-> {}, accepts |-> {t_int}],
       [names |-> {t_date}, within |-> {}, accepts |-> {t_date, t_timestamp, t_string}],
       [names |-> {pg_time_without_tz}, within |-> {}, accepts |-> {t_time, t_string}],
       [names |-> {}, within |-> {t_timestamp}, accepts |-> {t_timestamp, t_string}] >>

RuleMatches(r, pg) == pg \in r.names \/ \E w \in r.within : Contains(w, pg)

FirstMatchResult(pa, pg) ==
    LET matching == {k \in 1..Len(CompatRules) : RuleMatches(CompatRules[k], pg)}
    IN  IF matching = {} THEN FALSE
        ELSE LET first == CHOOSE k \in matching : \A j \in matching : k <= j
             IN  \E a \in CompatRules[first].accepts : Contains(a, pa)

\* C1: for lowercase type names the mapper returns the result of the first
\* matching rule in the listed priority order, and FALSE (never an error)
\* when no rule matches; ("double", "double precision") is compatible and
\* ("string", "integer") is not.
C1_FirstMatchingRule ==
    (mapper_pc = "done" /\ IsLowercase(pa_type) /\ IsLowercase(pg_type)) =>
        /\ compatible \in BOOLEAN
        /\ compatible = FirstMatchResult(pa_type, pg_type)
        /\ (pa_type = t_double /\ pg_type = pg_double_precision) => compatible = TRUE
        /\ (pa_type = t_string /\ pg_type = pg_integer) => compatible = FALSE

\* A string-encoded date was checked against the relational date type and
\* accepted by rule 4.
C1_Witness ==
    /\ mapper_pc = "done"
    /\ compatible = TRUE
    /\ pa_type = t_string
    /\ pg_type = t_date

----------------------------------------------------------------------------
(* C2 - C7: validate_dataframe_equality *)

Called == validate_pc = "done"

\* The sort columns the call resolved, and whether both frames have them.
ResolvedBy == IF sort_by.given THEN sort_by.by ELSE actual_df.cols
Sortable ==
    /\ Range(ResolvedBy) \subseteq Range(actual_df.cols)
    /\ Range(ResolvedBy) \subseteq Range(expected_df.cols)

\* The rows of both frames in the order the comparison sees them.
SortedActual == sort_values(actual_df, ResolvedBy).data
SortedExpected == sort_values(expected_df, ResolvedBy).data

SameSchema ==
    /\ actual_df.cols = expected_df.cols
    /\ actual_df.dtypes = expected_df.dtypes

KeyUnique(df) ==
    \A i, j \in 1..Len(df.data) : df.data[i]["id"] = df.data[j]["id"] => i = j

\* Every arrangement of the rows of a sequence.
Arrangements(d) == {[i \in 1..Len(d) |-> d[f[i]]] : f \in Permutations(1..Len(d))}

NamedColumns == {outcome.differences[k].col : k \in 1..Len(outcome.differences)}

\* Two cells hold different values: one is missing and the other is not,
\* or both are present and unequal.
CellsDiffer(x, y) ==
    \/ (x = Null) /= (y = Null)
    \/ (x /= Null /\ y /= Null /\ x /= y)

\* Column col holds a differing value at some position of the sorted rows
\* sa (of actual) and se (of expected).
ColumnDiffersIn(sa, se, col) ==
    \E i \in 1..Len(sa) : CellsDiffer(sa[i][col], se[i][col])

\* Column col holds a differing value at some position after sorting.
ColumnDiffers(col) == ColumnDiffersIn(SortedActual, SortedExpected, col)

\* C2: two datasets with the same columns and the same rows in any row
\* order pass validate_dataframe_equality when sort_by is the primary-key
\* column, and for key-unique datasets the outcome is the same for every
\* row order of either input.
C2_RowOrderIrrelevant ==
    (Called /\ sort_by = SortBy(<<"id">>) /\ SameSchema
            /\ KeyUnique(actual_df) /\ KeyUnique(expected_df)) =>
        /\ expected_df.data \in Arrangements(actual_df.data) => outcome.kind = "pass"
        /\ \A d1 \in Arrangements(actual_df.data), d2 \in Arrangements(expected_df.data) :
              validate_dataframe_equality([actual_df EXCEPT !.data = d1],
                                          [expected_df EXCEPT !.data = d2],
                                          sort_by, check_dtype) = outcome

\* Two rows with different keys arrived in opposite orders and passed.
C2_Witness ==
    /\ Called
    /\ sort_by = SortBy(<<"id">>)
    /\ SameSchema
    /\ Len(actual_df.data) = 2
    /\ actual_df.data[1]["id"] /= actual_df.data[2]["id"]
    /\ expected_df.data = Reverse(actual_df.data)
    /\ outcome.kind = "pass"

\* C3: when two datasets with the same columns and dtypes differ in at
\* least one cell after sorting, the call raises a ValidationError that
\* names every column holding a differing value, each once, and no column
\* whose values are all equal.
C3_EveryDifferingColumnNamed ==
    (Called /\ SameSchema /\ Len(actual_df.data) = Len(expected_df.data)) =>
        LET sa == SortedActual
            se == SortedExpected
            differing == {c \in Range(actual_df.cols) : ColumnDiffersIn(sa, se, c)}
        IN  differing /= {} =>
                /\ outcome.kind = "ValidationError"
                /\ outcome.what = "values"
                /\ NamedColumns = differing
                /\ Len(outcome.differences) = Cardinality(NamedColumns)

\* Both columns differed and both were named.
C3_Witness ==
    /\ Called
    /\ SameSchema
    /\ Len(actual_df.data) = Len(expected_df.data)
    /\ ColumnDiffers("id") /\ ColumnDiffers("a")
    /\ outcome.kind = "ValidationError"
    /\ NamedColumns = {"id", "a"}

\* One column differed, the other did not, and only the first was named.
C3_WitnessOneColumn ==
    /\ Called
    /\ SameSchema
    /\ Len(actual_df.data) = Len(expected_df.data)
    /\ ~ColumnDiffers("id") /\ ColumnDiffers("a")
    /\ NamedColumns = {"a"}

\* No dtype differs between the frames, on the columns both have.
NoDtypeMismatch ==
    \A c \in Range(actual_df.cols) \cap Range(expected_df.cols) :
        actual_df.dtypes[c] = expected_df.dtypes[c]

\* After sorting, no column holds a differing value.
NoValueMismatch ==
    /\ Sortable
    /\ Range(actual_df.cols) = Range(expected_df.cols)
    /\ Len(actual_df.data) = Len(expected_df.data)
    /\ \A c \in Range(actual_df.cols) : ~ColumnDiffers(c)

\* C4: the call returns without raising if and only if, after sorting by
\* the resolved sort key, there is no dtype mismatch (when check_dtype is
\* true) and no value mismatch in any column; otherwise it raises
\* ValidationError.
C4_PassIffNoMismatch ==
    Called =>
        /\ outcome.kind \in {"pass", "ValidationError"}
        /\ outcome.kind = "pass" <=> ((check_dtype => NoDtypeMismatch) /\ NoValueMismatch)

\* The dtypes of the two frames differ in some way.
DtypesDiffer == actual_df.dtypes /= expected_df.dtypes

\* The columns both frames have, under different dtypes.
MismatchedDtypeColumns ==
    {c \in Range(actual_df.cols) \cap Range(expected_df.cols) :
        actual_df.dtypes[c] /= expected_df.dtypes[c]}

\* C5: with check_dtype true, any difference in the declared types raises
\* a ValidationError that names every mismatching column with both its
\* types and no value comparison is reported; with check_dtype false no
\* dtype failure is raised.
C5_DtypeMismatchReported ==
    Called =>
        /\ (check_dtype /\ DtypesDiffer) =>
              /\ outcome.kind = "ValidationError"
              /\ outcome.what = "dtypes"
              /\ NamedColumns = MismatchedDtypeColumns
              /\ \A k \in 1..Len(outcome.differences) :
                    LET d == outcome.differences[k]
                    IN  /\ d.expected = expected_df.dtypes[d.col]
                        /\ d.got = actual_df.dtypes[d.col]
        /\ ~check_dtype => outcome.what /= "dtypes"

\* One frame has a column the other lacks.
ColumnSetsDiffer == Range(actual_df.cols) /= Range(expected_df.cols)

\* C6: a column present in only one of the two datasets is reported as a
\* ValidationError for every setting of check_dtype and sort_by.
C6_ColumnMismatchIsValidationError ==
    (Called /\ ColumnSetsDiffer) => outcome.kind = "ValidationError"

\* The values of the two frames were compared (no dtype failure, no
\* KeyError came first).
ValuesCompared == outcome.kind = "pass" \/ outcome.what = "values"

\* C7: where values are compared, two cells both missing at the same
\* position of a column compare as equal (a column with such a position
\* whose other positions are equal or both missing is not reported), and a
\* missing cell against a present cell reports that column.
C7_NullsCompare ==
    (Called /\ ValuesCompared /\ Range(actual_df.cols) = Range(expected_df.cols)
            /\ Len(actual_df.data) = Len(expected_df.data)) =>
        LET sa == SortedActual
            se == SortedExpected
        IN  \A c \in Range(actual_df.cols) :
                /\ (/\ \E i \in 1..Len(sa) : sa[i][c] = Null /\ se[i][c] = Null
                    /\ \A i \in 1..Len(sa) :
                          \/ sa[i][c] = Null /\ se[i][c] = Null
                          \/ sa[i][c] = se[i][c])
                   => c \notin NamedColumns
                /\ (\E i \in 1..Len(sa) : (sa[i][c] = Null) /= (se[i][c] = Null))
                   => (outcome.kind = "ValidationError" /\ c \in NamedColumns)

----------------------------------------------------------------------------
(* C8, C9, C10: the object store after an export *)

PrimaryKeys(data) == {data[i]["id"] : i \in DOMAIN data}

Occurrences(data, k) == Cardinality({i \in DOMAIN data : data[i]["id"] = k})

\* The rows of the relational dataset the export under a key is made of:
\* the whole table under the fixed key, its 'TEST' rows under a stamped key.
RelationalDataset(key) ==
    IF key.dir = "parquet" THEN postgres[key.table]
    ELSE {r \in postgres[key.table] : startswith_TEST(r["id"])}

\* s3_df was read from an export made after the last change of its table.
ReadBackCurrent == s3_df.status = "ok" /\ s3_df.fresh

ReadTable == s3_df.key.table

\* C8: after any inserts, updates and deletes followed by a re-export of the
\* table, the primary keys of the columnar dataset read back are those of
\* the relational dataset; a row deleted before the re-export is not in it.
C8_PrimaryKeysMatchAfterExport ==
    ReadBackCurrent =>
        /\ PrimaryKeys(s3_df.df.data) = {r["id"] : r \in RelationalDataset(s3_df.key)}
        /\ last_write[ReadTable].op = "delete"
              => last_write[ReadTable].id \notin PrimaryKeys(s3_df.df.data)

\* A row was deleted, the table exported in full again and the object
\* read back: the rows the schema was loaded with are all it holds.
C8_Witness ==
    /\ ReadBackCurrent
    /\ last_write[ReadTable].op = "delete"
    /\ s3_df.key.dir = "parquet"
    /\ PrimaryKeys(s3_df.df.data) = LoadedKeys

\* C9: after a full export of a table, the primary key of every row
\* inserted into the table is in the columnar dataset exactly once.
C9_InsertedRowExportedOnce ==
    ReadBackCurrent /\ s3_df.key.dir = "parquet" =>
        \A r \in postgres[ReadTable] : Occurrences(s3_df.df.data, r["id"]) = 1

\* A row was inserted, the table exported in full and read back with the
\* row in it.
C9_Witness ==
    /\ ReadBackCurrent
    /\ s3_df.key.dir = "parquet"
    /\ last_write[ReadTable].op = "insert"
    /\ Occurrences(s3_df.df.data, last_write[ReadTable].id) = 1
    /\ Len(s3_df.df.data) = Cardinality(LoadedKeys \cup TestKeys)

\* The columnar rows under primary key k.
ColumnarRows(k) == {i \in DOMAIN s3_df.df.data : s3_df.df.data[i]["id"] = k}

\* The update of a row is in the re-export: the columnar row under its key
\* carries the relational value of every field.
UpdateExported ==
    ReadBackCurrent /\ last_write[ReadTable].op = "update" =>
        \A r \in postgres[ReadTable] :
            r["id"] = last_write[ReadTable].id =>
                /\ ColumnarRows(r["id"]) /= {}
                /\ \A i \in ColumnarRows(r["id"]) : \A f \in Range(Base) :
                      s3_df.df.data[i][f] = r[f]

\* The objects that hold, as s3_df does, an export of the same kind of the
\* same table made after its last change.
SameExportAgain ==
    {key \in current : key.table = s3_df.key.table /\ key.dir = s3_df.key.dir}

\* Two exports with no write in between compare equal.
ExportIdempotent ==
    ReadBackCurrent =>
        \A key \in SameExportAgain :
            validate_dataframe_equality(s3_df.df, from_parquet(s3[key]),
                                        SortBy(<<"id">>), TRUE).kind = "pass"

\* C10: after the update of a field of a row and a re-export, the columnar
\* row under the row's key has the relational value of the field; and two
\* exports of a table with no relational write in between give columnar
\* datasets that compare equal.
C10_UpdateExportedAndExportIdempotent == UpdateExported /\ ExportIdempotent

\* A row was updated to a missing value and the re-export read back; a
\* second export since holds the rows in another order.
C10_Witness ==
    /\ ReadBackCurrent
    /\ last_write[ReadTable].op = "update"
    /\ \E i \in ColumnarRows(last_write[ReadTable].id) : s3_df.df.data[i]["a"] = Null
    /\ \E key \in SameExportAgain : from_parquet(s3[key]).data /= s3_df.df.data

\* Two stamped exports of the same content whose row labels differ.
C10_WitnessLabels ==
    /\ ReadBackCurrent
    /\ \E key \in SameExportAgain :
          /\ key /= s3_df.key
          /\ from_parquet(s3[key]).index.labels /= s3_df.df.index.labels

----------------------------------------------------------------------------
(* C11: relational writes and the objects *)

\* C11: a step that changes the relational store leaves every object as it
\* was, and a read of an object written before the table changed returns
\* what the object held then.
C11_WritesLeaveObjectsUnchanged ==
    [][/\ postgres' /= postgres => s3' = s3
       /\ (postgres' = postgres /\ s3_df' /= s3_df /\ s3_df'.status = "ok"
             /\ s3_df'.key \notin current) =>
              /\ s3' = s3
              /\ s3_df'.df = from_parquet(s3[s3_df'.key])]_vars

\* A row was inserted after the full export and not exported since: the
\* object is as the export left it and the frame read from it lacks the row.
C11_Witness ==
    /\ s3_df.status = "ok"
    /\ s3_df.key.dir = "parquet"
    /\ s3_df.key \notin current
    /\ s3_df.df = from_parquet(s3[s3_df.key])
    /\ last_write[ReadTable].op = "insert"
    /\ last_write[ReadTable].id \notin PrimaryKeys(s3_df.df.data)
    /\ \E r \in postgres[ReadTable] : r["id"] = last_write[ReadTable].id

----------------------------------------------------------------------------
(* C12: a transaction block is atomic *)

RECURSIVE AllEffects(_, _)
\* The rows after every statement of the block, in order.
AllEffects(rows, block) ==
    IF block = <<>> THEN rows
    ELSE AllEffects(StatementEffect(rows, Head(block)), Tail(block))

\* C12: the writes of one transaction block take effect together: all of
\* them are committed when the block returns, and none of them survives
\* when a statement or the body raises, a body that called conn.commit()
\* before the failure included.
C12_TransactionAtomic ==
    /\ tx_outcome = "committed" => tx_committed = AllEffects(LoadedKeys, tx_block)
    /\ tx_outcome = "raised" => tx_committed = LoadedKeys

----------------------------------------------------------------------------
(* C13, C14, C15: the verification run *)

\* C13: when the seed of the dependent tables fails partway, all of it is
\* rolled back: no patient row is left without its lab test and lab result.
C13_FailedSeedRollsBackAll ==
    run_failed.step = "seed" =>
        ("patient_information" \in run_rows => DependentTables \subseteq run_rows)

\* C14: however the run ends, cleanup has run: no row under the run's key
\* prefix is left in the relational store and no object the run put is
\* left in the object store.
C14_CleanupLeavesNothing ==
    run_pc = Step("done") => run_rows = {} /\ run_objects = {}

Before(e1, e2) ==
    \A i \in DOMAIN run_trace :
        run_trace[i] = e2 => \E j \in 1..(i - 1) : run_trace[j] = e1

\* The steps come in the order seed, export, read back, compare.
RunInOrder ==
    /\ Before("SEEDED", "EXPORTED")
    /\ Before("EXPORTED", "READ_BACK")
    /\ run_kind = "fixture" => Before("READ_BACK", "COMPARED")

\* After a failure no seed, export or comparison follows.
FailureSkipsTheRest ==
    \A i, j \in DOMAIN run_trace :
        run_trace[i] = "FAILED" /\ i < j => run_trace[j] \in {"CLEANED_UP", "FAILED"}

\* A run that is over has cleaned up last.
EndsCleanedUp ==
    run_pc = Step("done") =>
        run_trace /= <<>> /\ run_trace[Len(run_trace)] = "CLEANED_UP"

\* C15: a run goes through INIT, SEEDED, EXPORTED, COMPARED in that order,
\* a failure in any state skips the steps that remain, and CLEANED_UP is
\* reached all the same.
C15_RunOrderAndCleanup == RunInOrder /\ FailureSkipsTheRest /\ EndsCleanedUp

----------------------------------------------------------------------------
(* C16: export keys *)

\* C16: every export puts a new object under a key no earlier export has
\* used: no step replaces the object under a key that holds one.
C16_ExportNeverOverwrites ==
    [][\A key \in DOMAIN s3 : key \in DOMAIN s3' /\ s3'[key] = s3[key]]_vars

----------------------------------------------------------------------------
(* C17, C18, C19, C20: the scalar and record validators *)

\* A call of fn has ended; a record validator was given the rows under
\* the identifier.
Checked(fn) == check_pc = "done" /\ check_call.fn = fn /\ check_call.filtered

Raised == check_result = "ValidationError"

\* No row of the dataset of the call carries the identifier of the call.
NoRowMatches ==
    \A i \in DOMAIN check_call.df.data : check_call.df.data[i]["id"] /= check_call.identifier

\* C17: validate_record_exists raises ValidationError exactly when no row
\* of the dataset matches the identifier, validate_record_not_exists
\* exactly when some row does; on the same dataset and identifier exactly
\* one of the two raises.
C17_RecordExistsAndNotExists ==
    LET record == RecordsMatching(check_call.df, check_call.identifier)
    IN  /\ Checked("validate_record_exists") =>
              /\ Raised <=> NoRowMatches
              /\ Raised <=> validate_record_not_exists(record, check_call.identifier) = "pass"
        /\ Checked("validate_record_not_exists") =>
              /\ Raised <=> ~NoRowMatches
              /\ Raised <=> validate_record_exists(record, check_call.identifier) = "pass"

\* A dataset with rows, none of them under the identifier: the existence
\* check has raised.
C17_Witness ==
    /\ Checked("validate_record_exists")
    /\ Raised
    /\ check_call.df.data /= <<>>

\* C18: validate_record_count raises ValidationError for every two
\* integers that differ and returns for every two that are equal.
C18_RecordCount ==
    Checked("validate_record_count") =>
        (Raised <=> check_call.first /= check_call.second)
            /\ check_result \in {"pass", "ValidationError"}

\* The actual count is above the expected one and the call has raised.
C18_Witness ==
    /\ Checked("validate_record_count")
    /\ check_call.first > check_call.second
    /\ Raised

\* C19: validate_range returns exactly when min <= value <= max, both
\* bounds included, and raises ValidationError otherwise, whenever
\* min > max included.
C19_RangeInclusive ==
    Checked("validate_range") =>
        /\ check_result = "pass" <=>
              (check_call.first <= check_call.value /\ check_call.value <= check_call.second)
        /\ check_result /= "pass" => Raised
        /\ check_call.first > check_call.second => Raised

\* The value is the upper bound, above the lower one, and the call returned.
C19_Witness ==
    /\ Checked("validate_range")
    /\ check_call.value = check_call.second
    /\ check_call.first < check_call.value
    /\ check_result = "pass"

\* C20: a failure a validator detects reaches the caller as ValidationError
\* from that call: validate_dataframe_equality ends in no other exception.
C20_FailuresAreValidationErrors ==
    Called => outcome.kind \in {"pass", "ValidationError"}

----------------------------------------------------------------------------
(* C21, C25: the store clients *)

Finished(op) == client_pc = "done" /\ client_call.op = op

\* The six methods of AWSClient.
AWSClientMethods == S3Ops \ {"head_bucket"}

\* C21: on a 403 answer of the object store list_objects returns an empty
\* list and write_parquet, delete_s3_object, read_parquet,
\* get_parquet_schema and copy_object raise PermissionError; list_objects
\* and delete_s3_object raise any other client error on as it came.
C21_PermissionErrors ==
    \A op \in AWSClientMethods : Finished(op) =>
        /\ client_call.response = "403" =>
              client_result = IF op = "list_objects" THEN Return("[]")
                              ELSE Raise("PermissionError", "none")
        /\ (op \in {"list_objects", "delete_s3_object"}
               /\ client_call.response \notin {"ok", "403"}) =>
              client_result = Raise("ClientError", client_call.response)

\* list_objects was answered 403 and returned the empty list.
C21_Witness ==
    /\ Finished("list_objects")
    /\ client_call.response = "403"
    /\ client_result = Return("[]")

\* An attempt of the operation failed: the store answered the request
\* with an error, or the connection handed out had gone stale.
AttemptFailed ==
    \/ client_call.response /= "ok"
    \/ FailedFirst(client_call) > 0

\* C25: every operation against either store is attempted exactly once, and
\* a failure of the attempt leaves the operation as an exception.
C25_OnceAndEveryFailureRaises ==
    client_pc = "done" =>
        /\ client_attempts = 1
        /\ AttemptFailed => client_result.kind = "raise"

----------------------------------------------------------------------------
(* C22, C23, C24, C27, C30: the HTTP API *)

Answered(endpoint) == api_pc = "done" /\ api_request.endpoint = endpoint

ValidKey == api_request.x_api_key = "test_api_key"

PatientMissing == api_request.patient_id \notin api_db.patient_information

\* An execute call of the request raised: the first one, or the lab results
\* query, which runs only for a patient that exists.
StoreErrorRaised ==
    \/ api_db.fails = "first"
    \/ /\ api_db.fails = "second"
       /\ api_request.endpoint = "lab_results"
       /\ ~PatientMissing

\* C22 as stated: every one of the three endpoints answers a request whose
\* X-API-Key is not the secret with 401 and without data.
C22_EveryEndpointRequiresKey ==
    (api_pc = "done" /\ api_request.endpoint \in Endpoints /\ ~ValidKey) =>
        /\ api_response.status_code = 401
        /\ api_response.data = {}

\* C22 as amended: the patient and the lab_results endpoint answer a request
\* whose X-API-Key is not the secret with 401, one without the header with
\* 422, and neither with data; GET /health asks for no key and answers 200.
C22_PatientEndpointsRequireKey ==
    /\ \A endpoint \in {"patient", "lab_results"} :
          (Answered(endpoint) /\ ~ValidKey) =>
              /\ api_response.status_code =
                    IF api_request.x_api_key = Missing THEN 422 ELSE 401
              /\ api_response.data = {}
    /\ Answered("health") => api_response.status_code = 200

\* The lab results of an existing patient with results and an admission
\* were asked for under a wrong key: 401 and no data.
C22_Witness ==
    /\ Answered("lab_results")
    /\ api_request.x_api_key = "invalid_key"
    /\ ~PatientMissing
    /\ api_db.fails = "never"
    /\ lab_results_query(api_request, api_db) /= {}
    /\ api_response.status_code = 401
    /\ api_response.data = {}

\* C23: with the valid key, the patient and the lab_results endpoint answer
\* a patient_id without a row in patient_information with 404 and the
\* detail naming the patient, and the lab_results endpoint has then issued
\* the existence query only.
C23_MissingPatientIs404 ==
    \A endpoint \in {"patient", "lab_results"} :
        (Answered(endpoint) /\ ValidKey /\ PatientMissing /\ ~StoreErrorRaised) =>
            /\ api_response.status_code = 404
            /\ api_response.detail =
                  Detail("Patient {patient_id} not found", api_request.patient_id)
            /\ api_queries = <<"patient_information">>

\* The lab results of a missing patient were asked for with lab results in
\* the table: 404, and the lab results query was not run.
C23_Witness ==
    /\ Answered("lab_results")
    /\ ValidKey
    /\ PatientMissing
    /\ api_db.lab_results /= {}
    /\ api_response.status_code = 404
    /\ api_queries = <<"patient_information">>

\* C24: with the valid key, a store error raised while the patient or the
\* lab_results request is handled is answered with 500, and the 404 of a
\* missing patient raised in the same try block stays 404.
C24_StoreErrorIs500 ==
    \A endpoint \in {"patient", "lab_results"} :
        (Answered(endpoint) /\ ValidKey) =>
            /\ StoreErrorRaised => api_response.status_code = 500
            /\ (PatientMissing /\ ~StoreErrorRaised) => api_response.status_code = 404

\* The lab results query of an existing patient raised: 500.
C24_Witness ==
    /\ Answered("lab_results")
    /\ ValidKey
    /\ ~PatientMissing
    /\ api_db.fails = "second"
    /\ api_response.status_code = 500
    /\ api_queries = <<"patient_information", "lab_results">>

\* The lab results of the requested patient that pass the date filters.
ResultsOfPatient ==
    {lr \in api_db.lab_results :
        /\ \E lt \in api_db.lab_tests :
              lt.test_id = lr.test_id /\ lt.patient_id = api_request.patient_id
        /\ api_request.from_date /= 0 => lr.performed_date >= api_request.from_date
        /\ api_request.to_date /= 0 => lr.performed_date <= api_request.to_date}

\* C27: a 200 answer of the lab_results endpoint holds the lab results of
\* the requested patient: every row is a result of a test of that patient,
\* every such result within the date filters is there exactly once, every
\* row is within the date filters, and record_count is the number of rows.
C27_LabResultsOfThePatient ==
    (Answered("lab_results") /\ api_response.status_code = 200) =>
        /\ \A row \in api_response.data : row.lt.patient_id = api_request.patient_id
        /\ \A lr \in ResultsOfPatient :
              Cardinality({row \in api_response.data : row.lr = lr}) = 1
        /\ \A row \in api_response.data :
              /\ api_request.from_date /= 0 =>
                    row.lr.performed_date >= api_request.from_date
              /\ api_request.to_date /= 0 =>
                    row.lr.performed_date <= api_request.to_date
        /\ api_response.record_count = Cardinality(api_response.data)

\* C30: the patient and the lab_results endpoint answer a request with an
\* invalid key with 401 whatever the database holds and whether or not it
\* fails, and issue no query on the session.
C30_KeyCheckedBeforeAnyQuery ==
    \A endpoint \in {"patient", "lab_results"} :
        (Answered(endpoint) /\ api_request.x_api_key = "invalid_key") =>
            /\ api_response = HTTPException(401, Detail("Invalid API key", 0))
            /\ api_queries = <<>>

\* An invalid key against a failing store and an existing patient: 401.
C30_Witness ==
    /\ Answered("patient")
    /\ api_request.x_api_key = "invalid_key"
    /\ api_db.fails = "first"
    /\ ~PatientMissing
    /\ api_response.status_code = 401
    /\ api_queries = <<>>

----------------------------------------------------------------------------
(* C26: the schema consistency check *)

\* The two column lists name the same columns.
SameColumnNames == names(schema_call.pg_schema) = names(schema_call.parquet_schema)

\* Every column the two lists share has compatible types.
SharedColumnsCompatible ==
    \A i \in DOMAIN schema_call.pg_schema :
        schema_call.pg_schema[i].name \in names(schema_call.parquet_schema) =>
            is_compatible_type(
                field_type(schema_call.parquet_schema, schema_call.pg_schema[i].name),
                schema_call.pg_schema[i].type)

\* C26: the schema consistency check passes only if the relational and the
\* columnar column list name the same columns, none only on one side, and
\* every same-named pair has compatible types.
C26_SchemaCheckIsOneToOne ==
    (schema_pc = "done" /\ schema_result = "pass") =>
        SameColumnNames /\ SharedColumnsCompatible

----------------------------------------------------------------------------
(* C28: validate_dataframe_equality without sort_by *)

\* The two frames hold the same rows, each as often in one as in the other.
SameRowsWithMultiplicity == expected_df.data \in Arrangements(actual_df.data)

\* C28: without sort_by both datasets are sorted by every column of actual
\* in actual's column order, and two datasets with the same columns in the
\* same order pass if and only if they hold the same rows with the same
\* multiplicities, duplicated rows included.
C28_AllColumnSortComparesBags ==
    (Called /\ ~sort_by.given /\ SameSchema) =>
        /\ outcome = CompareSorted(reset_index(sort_values(actual_df, actual_df.cols)),
                                   reset_index(sort_values(expected_df, actual_df.cols)),
                                   check_dtype)
        /\ outcome.kind = "pass" <=> SameRowsWithMultiplicity

\* Two rows under the same key that differ in the other column arrived in
\* opposite orders, no sort_by was given, and the call passed.
C28_Witness ==
    /\ Called
    /\ ~sort_by.given
    /\ SameSchema
    /\ Len(actual_df.data) = 2
    /\ actual_df.data[1]["id"] = actual_df.data[2]["id"]
    /\ actual_df.data[1] /= actual_df.data[2]
    /\ expected_df.data = Reverse(actual_df.data)
    /\ outcome.kind = "pass"

\* A row twice in both frames, no column a unique key: the call passed.
C28_WitnessDuplicates ==
    /\ Called
    /\ ~sort_by.given
    /\ SameSchema
    /\ Len(actual_df.data) = 2
    /\ actual_df.data[1] = actual_df.data[2]
    /\ expected_df.data = actual_df.data
    /\ outcome.kind = "pass"

----------------------------------------------------------------------------
(* C29: the record validators look at the frame, not at the identifier *)

\* The frame the validator was handed: the rows under the identifier, or
\* the whole frame.
RecordPassed ==
    IF check_call.filtered THEN RecordsMatching(check_call.df, check_call.identifier)
    ELSE check_call.df

\* C29: validate_record_exists raises exactly when the frame it is handed
\* has no rows and validate_record_not_exists exactly when it has some,
\* whatever the identifier: a frame with rows, none of them under the
\* identifier, passes validate_record_exists.
C29_OutcomeDependsOnEmptinessOnly ==
    /\ (check_pc = "done" /\ check_call.fn = "validate_record_exists") =>
          (Raised <=> RecordPassed.data = <<>>)
    /\ (check_pc = "done" /\ check_call.fn = "validate_record_not_exists") =>
          (Raised <=> RecordPassed.data /= <<>>)

\* The whole frame was handed over; it has rows, none under the
\* identifier, and validate_record_exists returned.
C29_Witness ==
    /\ check_pc = "done"
    /\ check_call.fn = "validate_record_exists"
    /\ ~check_call.filtered
    /\ check_call.df.data /= <<>>
    /\ NoRowMatches
    /\ check_result = "pass"

============================================================================
